---- MODULE Spec2Model ----
(***************************************************************************)
(* Model of the indexed fault tree of scram: construction from the         *)
(* symbolic tree, gate normalization, constant propagation, module         *)
(* detection and minimal cut set generation                                *)
(* (src/src/indexed_fault_tree.cc).                                        *)
(*                                                                         *)
(* The classes IndexedGate and SimpleGate and the comparator SetPtrComp    *)
(* are declared in headers that are not part of src/; their operations     *)
(* are modelled from sections 4.1 and 4.4/4.5 of the specification.        *)
(*                                                                         *)
(* assert() is modelled for both builds: with assertions enabled the       *)
(* first violated assertion aborts the run; with NDEBUG the violated       *)
(* assertion is only recorded and the code continues.                      *)
(***************************************************************************)
EXTENDS Integers, Sequences, FiniteSets, TLC

(***************************************************************************)
(* Bounds of the model.                                                    *)
(***************************************************************************)
\* The order limit of a run ranges over 1..MaxLimit.
MaxLimit == 2
\* The primary events 1..MaxHouse may be house events with a fixed value.
MaxHouse == 1

\* Index of the top gate: primary events are below, other gates above it.
TopIndex == 4

(***************************************************************************)
(* Helpers for std::set<int> iteration: 0 is never an index and plays      *)
(* the role of end().                                                      *)
(***************************************************************************)
Abs(x) == IF x < 0 THEN -x ELSE x

Min(S) == CHOOSE x \in S : \A y \in S : x <= y

Max(S) == CHOOSE x \in S : \A y \in S : x >= y

Begin(S) == IF S = {} THEN 0 ELSE Min(S)

After(S, c) == Begin({x \in S : x > c})

Negate(S) == {-x : x \in S}

RECURSIVE SetToSeq(_)
SetToSeq(S) == IF S = {} THEN <<>> ELSE <<Min(S)>> \o SetToSeq(S \ {Min(S)})

Reverse(s) == [i \in 1..Len(s) |-> s[Len(s) + 1 - i]]

Perms(S) ==
  {s \in [1..Cardinality(S) -> S] : \A i, j \in 1..Cardinality(S) : s[i] = s[j] => i = j}

(***************************************************************************)
(* The symbolic input trees.  A shape gives the children of each gate      *)
(* (event names are already resolved to indices, all edges positive) and   *)
(* the gate kinds each gate may take; a tree is a shape with one kind per  *)
(* gate that fits the number of children.                                  *)
(***************************************************************************)
AllKinds == {"and", "or", "not", "null", "nor", "nand", "xor", "atleast"}

Coherent == {"and", "or", "atleast"}

Basic == {"and", "or", "not", "null"}

Shapes ==
  { [ch |-> (4 :> {1}), pool |-> AllKinds],
    [ch |-> (4 :> {1, 2}), pool |-> AllKinds],
    [ch |-> (4 :> {1, 2, 3}), pool |-> AllKinds],
    [ch |-> (4 :> {5}) @@ (5 :> {1, 2}), pool |-> AllKinds],
    [ch |-> (4 :> {1, 5}) @@ (5 :> {2, 3}), pool |-> AllKinds],
    [ch |-> (4 :> {1, 5}) @@ (5 :> {1, 2}), pool |-> AllKinds],
    [ch |-> (4 :> {1, 5}) @@ (5 :> {1}), pool |-> AllKinds],
    [ch |-> (4 :> {1, 2, 5}) @@ (5 :> {2, 3}), pool |-> Coherent],
    [ch |-> (4 :> {5, 6}) @@ (5 :> {1, 2}) @@ (6 :> {1, 3}), pool |-> AllKinds],
    [ch |-> (4 :> {5, 6}) @@ (5 :> {1, 6}) @@ (6 :> {2, 3}), pool |-> Basic \cup {"xor"}],
    [ch |-> (4 :> {1, 5}) @@ (5 :> {2, 6}) @@ (6 :> {3}), pool |-> Basic],
    [ch |-> (4 :> {1, 5}) @@ (5 :> {2, 6}) @@ (6 :> {3, 7}) @@ (7 :> {3}),
     pool |-> Basic] }

KindsFor(n) ==
  IF n = 1 THEN {[stype |-> "not", vote |-> 0], [stype |-> "null", vote |-> 0]}
  ELSE {[stype |-> t, vote |-> 0] : t \in {"and", "or", "nor", "nand"}}
       \cup (IF n = 2 THEN {[stype |-> "xor", vote |-> 0]}
             ELSE {[stype |-> "atleast", vote |-> k] : k \in 2..(n - 1)})

TreesOf(shape) ==
  LET G == DOMAIN shape.ch
      kinds(g) == {k \in KindsFor(Cardinality(shape.ch[g])) : k.stype \in shape.pool}
  IN {[g \in G |-> [stype |-> f[g].stype, vote |-> f[g].vote, children |-> shape.ch[g]]] :
        f \in {h \in [G -> UNION {kinds(g) : g \in G}] : \A g \in G : h[g] \in kinds(g)}}

Trees == UNION {TreesOf(s) : s \in Shapes}

\* Basic events of the model: every primary event below the top index.
Primary == 1..(TopIndex - 1)

(***************************************************************************)
(* Boolean value of the symbolic input tree.  A is the set of primary      *)
(* events that are true; house events take their constants.                *)
(***************************************************************************)
Count(S, P(_)) == Cardinality({x \in S : P(x)})

RECURSIVE EvalInput(_, _, _)
EvalInput(tree, A, i) ==
  IF i < TopIndex THEN i \in A
  ELSE LET gt == tree[i]
           n == Count(gt.children, LAMBDA c : EvalInput(tree, A, c))
           all == Cardinality(gt.children)
       IN CASE gt.stype = "and" -> n = all
            [] gt.stype = "or" -> n > 0
            [] gt.stype = "not" -> n = 0
            [] gt.stype = "null" -> n = all
            [] gt.stype = "nor" -> n = 0
            [] gt.stype = "nand" -> n < all
            [] gt.stype = "xor" -> n = 1
            [] gt.stype = "atleast" -> n >= gt.vote

\* The assignment that fixes the house events of a run.
WithHouse(A, th, fh) == (A \ fh) \cup th

(***************************************************************************)
(* IndexedGate (specification 4.1; the class is not in src/).              *)
(***************************************************************************)
NewGate(i) ==
  [index |-> i, stype |-> "undefined", type |-> 0, vote |-> 0, children |-> {},
   parents |-> {}, state |-> "normal", visits |-> <<0, 0, 0>>]

\* Collapse on a complementary pair: AND to null, everything else to unity.
Collapse(gt) == [gt EXCEPT !.state = IF gt.type = 2 THEN "null" ELSE "unity"]

AddChild(gt, c) ==
  IF -c \in gt.children THEN [gate |-> Collapse(gt), ret |-> FALSE]
  ELSE IF c \in gt.children THEN [gate |-> gt, ret |-> FALSE]
  ELSE [gate |-> [gt EXCEPT !.children = @ \cup {c}], ret |-> TRUE]

SwapChild(gt, old, new) ==
  IF old \notin gt.children THEN [gate |-> gt, ret |-> FALSE]
  ELSE LET rest == gt.children \ {old}
       IN IF -new \in rest
          THEN [gate |-> Collapse([gt EXCEPT !.children = rest]), ret |-> FALSE]
          ELSE [gate |-> [gt EXCEPT !.children = rest \cup {new}], ret |-> TRUE]

InvertChildren(gt) == [gt EXCEPT !.children = Negate(@)]

\* join_child_gate: the children of the child are absorbed in set order; the
\* first one that is the complement of a present child collapses the gate.
RECURSIVE MergeLoop(_, _, _)
MergeLoop(gt, from, it) ==
  IF it = 0 THEN [gate |-> gt, ret |-> TRUE]
  ELSE IF -it \in gt.children THEN [gate |-> Collapse(gt), ret |-> FALSE]
  ELSE MergeLoop([gt EXCEPT !.children = @ \cup {it}], from, After(from, it))

MergeGate(gt, child) ==
  MergeLoop([gt EXCEPT !.children = @ \ {child.index}], child.children,
            Begin(child.children))

Nullify(gt) == [gt EXCEPT !.state = "null"]

MakeUnity(gt) == [gt EXCEPT !.state = "unity"]

\* visit(time): first call records the enter time, the second the exit time,
\* any later call the last revisit and reports it.
Visit(gt, time) ==
  IF gt.visits[1] = 0 THEN [gate |-> [gt EXCEPT !.visits[1] = time], ret |-> FALSE]
  ELSE IF gt.visits[2] = 0 THEN [gate |-> [gt EXCEPT !.visits[2] = time], ret |-> FALSE]
  ELSE [gate |-> [gt EXCEPT !.visits[3] = time], ret |-> TRUE]

(***************************************************************************)
(* The state threaded through the passes: st.g is indexed_gates_, st.ngi   *)
(* new_gate_index_, st.sign top_event_sign_, st.mods modules_.  st.failed  *)
(* collects the source lines of violated assertions; st.err is "" while    *)
(* the run goes on, "abort" after an assertion of a build with assertions  *)
(* failed, "hang" or "ub" when the NDEBUG build loops or dereferences an   *)
(* end iterator.  st.limit is limit_order_.  st.rev tells in which order  *)
(* the sets of SimpleGate pointers are iterated: they are ordered by       *)
(* address, so a run may see them in the order of creation or in the       *)
(* opposite order.                                                         *)
(***************************************************************************)
Expect(st, cond, line) ==
  IF cond \/ st.err # "" THEN st
  ELSE [st EXCEPT !.failed = @ \cup {line},
                  !.err = IF st.ndebug THEN "" ELSE "abort"]

Fail(st, what) == IF st.err # "" THEN st ELSE [st EXCEPT !.err = what]

SetGate(st, gt) == [st EXCEPT !.g = [@ EXCEPT ![gt.index] = gt]]

\* unordered_map::insert keeps an element that is already there.
InsertGate(st, gt) == [st EXCEPT !.g = @ @@ (gt.index :> gt)]

IsGate(c) == Abs(c) > TopIndex

EraseChild(gt, c) == [gt EXCEPT !.children = @ \ {c}]

\* The object of class IndexedFaultTree after its constructor (lines 13-17),
\* with the scratch containers the passes use.
NewTree(nd) ==
  [g |-> << >>, ngi |-> 0, sign |-> 1, mods |-> {}, failed |-> {}, err |-> "",
   ndebug |-> nd, limit |-> 0, rev |-> FALSE,
   processed |-> {}, unrolled |-> {}, complements |-> << >>,
   time |-> 0, vb |-> << >>, visited |-> << >>, min |-> 0, max |-> 0]

(***************************************************************************)
(* InitiateIndexedFaultTree, GatherParentInformation, UnrollGates.         *)
(* order is the iteration order of the hash maps int_to_inter and          *)
(* indexed_gates_, which hold the same keys.                               *)
(***************************************************************************)
\* InitiateLoop with line 46 read as "the gate visited last sets the counter".
RECURSIVE InitiateLoopLastWins(_, _, _, _)
InitiateLoopLastWins(st, tree, order, i) ==
  IF i > Len(order) THEN st
  ELSE LET idx == order[i]
           gate == [NewGate(idx) EXCEPT
                      !.stype = tree[idx].stype,
                      !.vote = IF tree[idx].stype = "atleast" THEN tree[idx].vote ELSE 0,
                      !.children = tree[idx].children]
           st1 == InsertGate(st, gate)
       IN InitiateLoopLastWins([st1 EXCEPT !.ngi = idx + 1], tree, order, i + 1)

RECURSIVE InitiateLoop(_, _, _, _)
InitiateLoop(st, tree, order, i) ==
  IF i > Len(order) THEN st
  ELSE LET idx == order[i]
           gate == [NewGate(idx) EXCEPT
                      !.stype = tree[idx].stype,
                      !.vote = IF tree[idx].stype = "atleast" THEN tree[idx].vote ELSE 0,
                      !.children = tree[idx].children]
           st1 == InsertGate(st, gate)
           st2 == IF idx > st1.ngi THEN [st1 EXCEPT !.ngi = idx + 1] ELSE st1
       IN InitiateLoop(st2, tree, order, i + 1)

RECURSIVE GatherParentInformation(_, _)
RECURSIVE GatherLoop(_, _, _)
GatherParentInformation(st, p) ==
  IF p \in st.processed THEN st
  ELSE GatherLoop([st EXCEPT !.processed = @ \cup {p}], p, Begin(st.g[p].children))

\* GatherLoop that records a parent only for a child gate that has not been
\* processed yet.
GatherLoopFirstParent(st, p, it) ==
  IF it = 0 THEN st
  ELSE IF Abs(it) > TopIndex /\ Abs(it) \notin st.processed
       THEN LET index == Abs(it)
                st1 == SetGate(st, [st.g[index] EXCEPT !.parents = @ \cup {p}])
                st2 == GatherParentInformation(st1, index)
            IN GatherLoop(st2, p, After(st2.g[p].children, it))
       ELSE GatherLoop(st, p, After(st.g[p].children, it))

GatherLoop(st, p, it) ==
  IF it = 0 THEN st
  ELSE IF Abs(it) > TopIndex
       THEN LET index == Abs(it)
                st1 == SetGate(st, [st.g[index] EXCEPT !.parents = @ \cup {p}])
                st2 == GatherParentInformation(st1, index)
            IN GatherLoop(st2, p, After(st2.g[p].children, it))
       ELSE GatherLoop(st, p, After(st.g[p].children, it))

RECURSIVE FlipInParents(_, _, _)
FlipInParents(st, child, it) ==
  IF it = 0 \/ st.err # "" THEN st
  ELSE LET parent == st.g[it]
           positive == child \in parent.children
           sw == IF positive THEN SwapChild(parent, child, -child)
                 ELSE SwapChild(parent, -child, child)
           st1 == Expect(SetGate(st, sw.gate), sw.ret, IF positive THEN 365 ELSE 368)
       IN FlipInParents(st1, child, After(st.g[child].parents, it))

UnrollGate(st, idx) ==
  LET gate == st.g[idx]
      type == gate.stype
      st1 == IF type \in {"nor", "not", "nand"}
             THEN FlipInParents(st, idx, Begin(gate.parents)) ELSE st
      g1 == st1.g[idx]
      g2 == CASE type = "or" -> [g1 EXCEPT !.type = 1]
              [] type \in {"and", "null", "not", "nand"} ->
                   [g1 EXCEPT !.type = 2, !.stype = "and"]
              [] type = "nor" -> [g1 EXCEPT !.type = 1, !.stype = "or"]
              [] OTHER -> g1
  IN IF st1.err # "" THEN st1 ELSE SetGate(st1, g2)

RECURSIVE UnrollRest(_, _, _)
UnrollRest(st, order, i) ==
  IF i > Len(order) \/ st.err # "" THEN st
  ELSE UnrollRest(UnrollGate(st, order[i]), order, i + 1)

UnrollGates(st, order) ==
  LET top == st.g[TopIndex]
      type == top.stype
      t1 == CASE type \in {"nor"} -> [top EXCEPT !.stype = "or"]
              [] type \in {"nand", "not", "null"} -> [top EXCEPT !.stype = "and"]
              [] type = "or" -> [top EXCEPT !.type = 1]
              [] type = "and" -> [top EXCEPT !.type = 2]
              [] OTHER -> top
      sign == IF type \in {"nor", "nand", "not"} THEN -1 ELSE 1
      st1 == [SetGate(st, t1) EXCEPT !.sign = sign]
      st2 == Expect(st1, order[1] = TopIndex, 347)
  IN UnrollRest(st2, order, 2)

InitiateIndexedFaultTree(st, tree, order) ==
  LET st1 == InitiateLoop(st, tree, order, 1)
      st2 == Expect(st1, order[1] = TopIndex, 49)
      st3 == IF st2.err # "" THEN st2
             ELSE GatherParentInformation([st2 EXCEPT !.processed = {}], TopIndex)
  IN IF st3.err # "" THEN st3 ELSE UnrollGates(st3, order)

(***************************************************************************)
(* PropagateConstants (lines 497-613).  th and fh are the sets of true     *)
(* and false house events.                                                 *)
(***************************************************************************)
RECURSIVE PropagateConstantsIn(_, _, _, _)
RECURSIVE PropagateLoop(_, _, _, _, _)
RECURSIVE PropagateChild(_, _, _, _, _, _)

\* PropagateLoop with the sign of the child left out of lines 521-531: a
\* constant child counts as its own value under either sign.
PropagateLoopIgnoreSign(st, th, fh, gi, it) ==
  IF st.err # "" \/ it = 0 THEN st
  ELSE IF Abs(it) > TopIndex
       THEN LET st1 == PropagateConstantsIn(st, th, fh, Abs(it))
                ss == st1.g[Abs(it)].state
            IN IF st1.err # "" THEN st1
               ELSE IF ss = "normal"
               THEN PropagateLoop(st1, th, fh, gi, After(st1.g[gi].children, it))
               ELSE PropagateChild(st1, th, fh, gi, it, ss # "null")
       ELSE IF Abs(it) \in fh THEN PropagateChild(st, th, fh, gi, it, FALSE)
       ELSE IF Abs(it) \in th THEN PropagateChild(st, th, fh, gi, it, TRUE)
       ELSE PropagateLoop(st, th, fh, gi, After(st.g[gi].children, it))

\* PropagateLoop that hands every constant child of an XOR gate to the
\* branch of lines 548-577, the one of a false child.
PropagateLoopXorFalse(st, th, fh, gi, it) ==
  IF st.err # "" \/ it = 0 THEN st
  ELSE IF Abs(it) > TopIndex
       THEN LET st1 == PropagateConstantsIn(st, th, fh, Abs(it))
                ss == st1.g[Abs(it)].state
            IN IF st1.err # "" THEN st1
               ELSE IF ss = "normal"
               THEN PropagateLoop(st1, th, fh, gi, After(st1.g[gi].children, it))
               ELSE PropagateChild(st1, th, fh, gi, it,
                                   /\ st1.g[gi].stype # "xor"
                                   /\ IF ss = "null" THEN it < 0 ELSE it > 0)
       ELSE IF Abs(it) \in fh
       THEN PropagateChild(st, th, fh, gi, it, st.g[gi].stype # "xor" /\ it < 0)
       ELSE IF Abs(it) \in th
       THEN PropagateChild(st, th, fh, gi, it, st.g[gi].stype # "xor" /\ it > 0)
       ELSE PropagateLoop(st, th, fh, gi, After(st.g[gi].children, it))

\* PropagateLoop that hands every constant child of an ATLEAST gate to the
\* branch of lines 568-576, which erases the child and keeps the vote number.
PropagateLoopAtleastFalse(st, th, fh, gi, it) ==
  IF st.err # "" \/ it = 0 THEN st
  ELSE IF Abs(it) > TopIndex
       THEN LET st1 == PropagateConstantsIn(st, th, fh, Abs(it))
                ss == st1.g[Abs(it)].state
            IN IF st1.err # "" THEN st1
               ELSE IF ss = "normal"
               THEN PropagateLoop(st1, th, fh, gi, After(st1.g[gi].children, it))
               ELSE PropagateChild(st1, th, fh, gi, it,
                                   /\ st1.g[gi].stype # "atleast"
                                   /\ IF ss = "null" THEN it < 0 ELSE it > 0)
       ELSE IF Abs(it) \in fh
       THEN PropagateChild(st, th, fh, gi, it, st.g[gi].stype # "atleast" /\ it < 0)
       ELSE IF Abs(it) \in th
       THEN PropagateChild(st, th, fh, gi, it, st.g[gi].stype # "atleast" /\ it > 0)
       ELSE PropagateLoop(st, th, fh, gi, After(st.g[gi].children, it))

PropagateConstantsIn(st, th, fh, gi) ==
  IF st.err # "" \/ gi \in st.processed THEN st
  ELSE PropagateLoop([st EXCEPT !.processed = @ \cup {gi}], th, fh, gi,
                     Begin(st.g[gi].children))

PropagateLoop(st, th, fh, gi, it) ==
  IF st.err # "" \/ it = 0 THEN st
  ELSE IF Abs(it) > TopIndex
       THEN LET st1 == PropagateConstantsIn(st, th, fh, Abs(it))
                ss == st1.g[Abs(it)].state
            IN IF st1.err # "" THEN st1
               ELSE IF ss = "normal"
               THEN PropagateLoop(st1, th, fh, gi, After(st1.g[gi].children, it))
               ELSE PropagateChild(st1, th, fh, gi, it,
                                   IF ss = "null" THEN it < 0 ELSE it > 0)
       ELSE IF Abs(it) \in fh THEN PropagateChild(st, th, fh, gi, it, it < 0)
       ELSE IF Abs(it) \in th THEN PropagateChild(st, th, fh, gi, it, it > 0)
       ELSE PropagateLoop(st, th, fh, gi, After(st.g[gi].children, it))

\* The child *it of gate gi has the constant value state (lines 543-611).
PropagateChild(st0, th, fh, gi, it, state) ==
  LET pt == st0.g[gi].stype
      st == Expect(st0, pt \in {"or", "and", "xor", "atleast"}, 544)
      gate == st.g[gi]
      erased == EraseChild(gate, it)
      again(s) == PropagateLoop(s, th, fh, gi, Begin(s.g[gi].children))
  IN IF st.err # "" THEN st
     ELSE IF ~state
     THEN CASE pt = "or" ->
                 IF erased.children = {} THEN SetGate(st, Nullify(erased))
                 ELSE again(SetGate(st, erased))
            [] pt = "and" -> SetGate(st, Nullify(gate))
            [] pt = "xor" ->
                 LET s1 == Expect(st, Cardinality(gate.children) = 2, 561)
                     s2 == Expect(s1, erased.children # {}, 563)
                 IN again(SetGate(s2, [erased EXCEPT !.stype = "or", !.type = 1]))
            [] pt = "atleast" ->
                 again(SetGate(st,
                   IF erased.vote = Cardinality(erased.children)
                   THEN [erased EXCEPT !.stype = "and", !.type = 2] ELSE erased))
            [] OTHER -> Fail(st, "hang")
     ELSE CASE pt = "or" -> SetGate(st, MakeUnity(gate))
            [] pt = "and" ->
                 IF erased.children = {} THEN SetGate(st, MakeUnity(erased))
                 ELSE again(SetGate(st, erased))
            [] pt = "xor" ->
                 LET s1 == Expect(st, Cardinality(gate.children) = 2, 590)
                     s2 == Expect(s1, erased.children # {}, 592)
                     g1 == [erased EXCEPT !.stype = "or", !.type = 1]
                     ch == Begin(g1.children)
                 IN IF s2.err # "" THEN s2
                    ELSE IF ch = 0 THEN Fail(SetGate(s2, g1), "ub")
                    ELSE again(SetGate(s2, SwapChild(g1, ch, -ch).gate))
            [] pt = "atleast" ->
                 LET s1 == Expect(st, gate.vote > 1, 600)
                     s2 == Expect(s1, Cardinality(gate.children) > 2, 601)
                     g1 == [erased EXCEPT !.vote = @ - 1]
                 IN again(SetGate(s2,
                      IF g1.vote = 1 THEN [g1 EXCEPT !.type = 1, !.stype = "or"] ELSE g1))
            [] OTHER -> Fail(st, "hang")

PropagateConstants(st, th, fh) ==
  PropagateConstantsIn([st EXCEPT !.processed = {}], th, fh, TopIndex)

(***************************************************************************)
(* DetectModules, AssignTiming, FindOriginalModules (lines 633-735).       *)
(* st.time is the clock, st.vb the array visit_basics, st.visited the map  *)
(* visited_gates, st.min and st.max the out parameters min_time, max_time. *)
(***************************************************************************)
RECURSIVE AssignTiming(_, _)
RECURSIVE TimingLoop(_, _, _)
AssignTiming(st, gi) ==
  LET v == Visit(st.g[gi], st.time + 1)
      st1 == [SetGate(st, v.gate) EXCEPT !.time = @ + 1]
  IN IF st.err # "" THEN st
     ELSE IF v.ret THEN st1
     ELSE TimingLoop(st1, gi, Begin(st1.g[gi].children))

\* TimingLoop without the assertion of line 689 on the second visit.
TimingLoopNoCheck(st, gi, it) ==
  IF st.err # "" THEN st
  ELSE IF it = 0
  THEN [SetGate(st, Visit(st.g[gi], st.time + 1).gate) EXCEPT !.time = @ + 1]
  ELSE LET index == Abs(it)
           st1 == IF index < TopIndex
                  THEN IF st.vb[index][1] = 0
                       THEN [st EXCEPT !.time = @ + 1,
                                       !.vb[index] = <<st.time + 1, st.time + 1>>]
                       ELSE [st EXCEPT !.time = @ + 1, !.vb[index][2] = st.time + 1]
                  ELSE AssignTiming(st, index)
       IN TimingLoop(st1, gi, After(st1.g[gi].children, it))

TimingLoop(st, gi, it) ==
  IF st.err # "" THEN st
  ELSE IF it = 0
  THEN LET v == Visit(st.g[gi], st.time + 1)
       IN Expect([SetGate(st, v.gate) EXCEPT !.time = @ + 1], ~v.ret, 689)
  ELSE LET index == Abs(it)
           st1 == IF index < TopIndex
                  THEN IF st.vb[index][1] = 0
                       THEN [st EXCEPT !.time = @ + 1,
                                       !.vb[index] = <<st.time + 1, st.time + 1>>]
                       ELSE [st EXCEPT !.time = @ + 1, !.vb[index][2] = st.time + 1]
                  ELSE AssignTiming(st, index)
       IN TimingLoop(st1, gi, After(st1.g[gi].children, it))

RECURSIVE FindOriginalModules(_, _)
RECURSIVE ModulesLoop(_, _, _, _, _)
FindOriginalModules(st, gi) ==
  IF st.err # "" THEN st
  ELSE IF gi \in DOMAIN st.visited
  THEN [st EXCEPT !.min = st.visited[gi][1], !.max = st.visited[gi][2]]
  ELSE ModulesLoop(st, gi, Begin(st.g[gi].children),
                   st.g[gi].visits[1], st.g[gi].visits[2])

\* ModulesLoop without the last visit time of the gate (visits()[2], kept as
\* visits[3]) in the times handed to the parent.
ModulesLoopNoRevisit(st, gi, it, min_time, max_time) ==
  IF st.err # "" THEN st
  ELSE IF it = 0
  THEN LET gate == st.g[gi]
           module == min_time = gate.visits[1] /\ max_time = gate.visits[2]
       IN [st EXCEPT !.mods = IF module THEN @ \cup {gi} ELSE @,
                     !.visited = @ @@ (gi :> <<min_time, max_time>>),
                     !.min = min_time, !.max = max_time]
  ELSE LET index == Abs(it)
           st1 == IF index < TopIndex
                  THEN [st EXCEPT !.min = st.vb[index][1], !.max = st.vb[index][2]]
                  ELSE FindOriginalModules(st, index)
           st2 == Expect(Expect(st1, st1.min # 0, 722), st1.max # 0, 723)
       IN ModulesLoop(st2, gi, After(st2.g[gi].children, it),
                      IF st2.min < min_time THEN st2.min ELSE min_time,
                      IF st2.max > max_time THEN st2.max ELSE max_time)

ModulesLoop(st, gi, it, min_time, max_time) ==
  IF st.err # "" THEN st
  ELSE IF it = 0
  THEN LET gate == st.g[gi]
           module == min_time = gate.visits[1] /\ max_time = gate.visits[2]
           mx == IF gate.visits[3] > max_time THEN gate.visits[3] ELSE max_time
       IN [st EXCEPT !.mods = IF module THEN @ \cup {gi} ELSE @,
                     !.visited = @ @@ (gi :> <<min_time, mx>>),
                     !.min = min_time, !.max = mx]
  ELSE LET index == Abs(it)
           st1 == IF index < TopIndex
                  THEN [st EXCEPT !.min = st.vb[index][1], !.max = st.vb[index][2]]
                  ELSE FindOriginalModules(st, index)
           st2 == Expect(Expect(st1, st1.min # 0, 722), st1.max # 0, 723)
       IN ModulesLoop(st2, gi, After(st2.g[gi].children, it),
                      IF st2.min < min_time THEN st2.min ELSE min_time,
                      IF st2.max > max_time THEN st2.max ELSE max_time)

DetectModules(st, num_basic_events) ==
  LET st0 == [st EXCEPT !.vb = [i \in 0..num_basic_events |-> <<0, 0>>],
                        !.time = 0, !.visited = << >>, !.min = 0, !.max = 0]
      st1 == AssignTiming(st0, TopIndex)
      st2 == FindOriginalModules(st1, TopIndex)
      st3 == Expect(st2, st2.min = 1, 662)
  IN Expect(st3, st3.max = st3.g[TopIndex].visits[3], 663)

ProcessIndexedFaultTree(st, num_basic_events) == DetectModules(st, num_basic_events)

(***************************************************************************)
(* UnrollComplexTopGate, UnrollComplexGates, UnrollXorGate,                *)
(* UnrollAtleastGate (lines 387-495).                                      *)
(***************************************************************************)
RECURSIVE LexLess(_, _)
LexLess(S, T) ==
  IF T = {} THEN FALSE
  ELSE IF S = {} THEN TRUE
  ELSE LET a == Min(S)
           b == Min(T)
       IN IF a < b THEN TRUE
          ELSE IF b < a THEN FALSE
          ELSE LexLess(S \ {a}, T \ {b})

\* Iteration order of a std::set< std::set<int> >.
RECURSIVE SortSets(_)
SortSets(SS) ==
  IF SS = {} THEN << >>
  ELSE LET m == CHOOSE s \in SS : \A t \in SS : t = s \/ LexLess(s, t)
       IN <<m>> \o SortSets(SS \ {m})

UnrollXorGate(st0, gi) ==
  LET st == Expect(st0, Cardinality(st0.g[gi].children) = 2, 425)
      gate == st.g[gi]
      c1 == Begin(gate.children)
      c2 == After(gate.children, c1)
      n1 == st.ngi + 1
      n2 == st.ngi + 2
      one0 == [NewGate(n1) EXCEPT !.type = 2, !.stype = "and"]
      two0 == [NewGate(n2) EXCEPT !.type = 2, !.stype = "and"]
      one == AddChild(AddChild(one0, c1).gate, -c2).gate
      two == AddChild(AddChild(two0, -c1).gate, c2).gate
      g1 == [gate EXCEPT !.type = 1, !.stype = "or", !.children = {}]
      g2 == AddChild(AddChild(g1, n1).gate, n2).gate
      st1 == [st EXCEPT !.ngi = n2]
  IN IF st.err # "" THEN st
     ELSE IF c1 = 0 \/ c2 = 0 THEN Fail(st1, "ub")
     ELSE SetGate(InsertGate(InsertGate(st1, one), two), g2)

\* The sets of vote_number children built by lines 454-477.
RECURSIVE Combinations(_, _, _, _)
Combinations(all_sets, children, i, vote_number) ==
  IF i >= vote_number THEN all_sets
  ELSE Combinations({s \cup {c} : s \in all_sets, c \in children}
                      \ {s \in SUBSET children : Cardinality(s) <= i},
                    children, i + 1, vote_number)

\* Lines 488-491: the children of one set are added to the new gate.
RECURSIVE AddChildren(_, _, _)
AddChildren(gt, S, it) ==
  IF it = 0 THEN [gate |-> gt, ret |-> TRUE]
  ELSE LET a == AddChild(gt, it)
           rest == AddChildren(a.gate, S, After(S, it))
       IN [gate |-> rest.gate, ret |-> a.ret /\ rest.ret]

RECURSIVE AtleastLoop(_, _, _, _)
AtleastLoop(st, gi, sets, i) ==
  IF i > Len(sets) \/ st.err # "" THEN st
  ELSE LET n == st.ngi + 1
           one0 == [NewGate(n) EXCEPT !.type = 2, !.stype = "and"]
           one == AddChildren(one0, sets[i], Begin(sets[i]))
           st1 == Expect([st EXCEPT !.ngi = n], one.ret, 490)
           gate == AddChild(st1.g[gi], n).gate
       IN AtleastLoop(InsertGate(SetGate(st1, gate), one.gate), gi, sets, i + 1)

UnrollAtleastGate(st0, gi) ==
  LET gate == st0.g[gi]
      st1 == Expect(st0, gate.vote > 1, 452)
      st2 == Expect(st1, Cardinality(gate.children) > gate.vote, 453)
      all_sets == Combinations({{c} : c \in gate.children}, gate.children, 1, gate.vote)
      g1 == [gate EXCEPT !.type = 1, !.stype = "or", !.children = {}]
  IN IF st2.err # "" THEN st2
     ELSE AtleastLoop(SetGate(st2, g1), gi, SortSets(all_sets), 1)

UnrollComplex(st, gi) ==
  LET type == st.g[gi].stype
  IN IF type = "xor" THEN UnrollXorGate(st, gi)
     ELSE IF type = "atleast" THEN UnrollAtleastGate(st, gi)
     ELSE st

RECURSIVE UnrollComplexGates(_, _, _)
UnrollComplexGates(st, parent, it) ==
  IF it = 0 \/ st.err # "" THEN st
  ELSE IF Abs(it) > TopIndex /\ Abs(it) \notin st.unrolled /\ Abs(it) \notin st.mods
       THEN LET gi == Abs(it)
                st1 == Expect([st EXCEPT !.unrolled = @ \cup {gi}],
                              st.g[gi].stype # "undefined", 412)
                st2 == UnrollComplex(st1, gi)
                st3 == IF st2.err # "" THEN st2
                       ELSE UnrollComplexGates(st2, gi, Begin(st2.g[gi].children))
            IN UnrollComplexGates(st3, parent, After(st3.g[parent].children, it))
       ELSE UnrollComplexGates(st, parent, After(st.g[parent].children, it))

UnrollComplexTopGate(st, top_gate) ==
  LET st1 == Expect(st, st.g[top_gate].stype # "undefined", 390)
      st2 == UnrollComplex(st1, top_gate)
  IN IF st2.err # "" THEN st2
     ELSE UnrollComplexGates([st2 EXCEPT !.unrolled = {}], top_gate,
                             Begin(st2.g[top_gate].children))

(***************************************************************************)
(* PropagateComplements (lines 737-780).  st.complements is the map        *)
(* gate_complements, st.processed the set processed_gates.                 *)
(***************************************************************************)
RECURSIVE PropagateComplements(_, _, _)

\* PropagateComplements without the lookup of line 748 in gate_complements:
\* every negative reference to a gate gets a new complement gate.
PropagateComplementsNoCache(st, gi, it) ==
  IF it = 0 \/ st.err # "" THEN st
  ELSE IF Abs(it) > TopIndex /\ Abs(it) \notin st.mods
  THEN IF it < 0
       THEN LET n == st.ngi + 1
                existing == st.g[-it]
                complement_gate ==
                  InvertChildren([NewGate(n) EXCEPT
                                    !.type = IF existing.type = 1 THEN 2 ELSE 1,
                                    !.children = existing.children])
                st1 == InsertGate([st EXCEPT !.ngi = n,
                                             !.complements = @ @@ (-it :> n)],
                                  complement_gate)
                st2 == SetGate(st1, SwapChild(st1.g[gi], it, n).gate)
                st3 == PropagateComplements([st2 EXCEPT !.processed = @ \cup {n}],
                                            n, Begin(st2.g[n].children))
            IN PropagateComplements(st3, gi, Begin(st3.g[gi].children))
       ELSE IF it \notin st.processed
            THEN LET st1 == PropagateComplements([st EXCEPT !.processed = @ \cup {it}],
                                                 it, Begin(st.g[it].children))
                 IN PropagateComplements(st1, gi, After(st1.g[gi].children, it))
            ELSE PropagateComplements(st, gi, After(st.g[gi].children, it))
  ELSE PropagateComplements(st, gi, After(st.g[gi].children, it))

PropagateComplements(st, gi, it) ==
  IF it = 0 \/ st.err # "" THEN st
  ELSE IF Abs(it) > TopIndex /\ Abs(it) \notin st.mods
  THEN IF it < 0
       THEN IF -it \in DOMAIN st.complements
            THEN LET sw == SwapChild(st.g[gi], it, st.complements[-it])
                     st1 == SetGate(st, sw.gate)
                 IN PropagateComplements(st1, gi, Begin(st1.g[gi].children))
            ELSE LET n == st.ngi + 1
                     existing == st.g[-it]
                     complement_gate ==
                       InvertChildren([NewGate(n) EXCEPT
                                         !.type = IF existing.type = 1 THEN 2 ELSE 1,
                                         !.children = existing.children])
                     st1 == InsertGate([st EXCEPT !.ngi = n,
                                                  !.complements = @ @@ (-it :> n)],
                                       complement_gate)
                     st2 == SetGate(st1, SwapChild(st1.g[gi], it, n).gate)
                     st3 == PropagateComplements([st2 EXCEPT !.processed = @ \cup {n}],
                                                 n, Begin(st2.g[n].children))
                 IN PropagateComplements(st3, gi, Begin(st3.g[gi].children))
       ELSE IF it \notin st.processed
            THEN LET st1 == PropagateComplements([st EXCEPT !.processed = @ \cup {it}],
                                                 it, Begin(st.g[it].children))
                 IN PropagateComplements(st1, gi, After(st1.g[gi].children, it))
            ELSE PropagateComplements(st, gi, After(st.g[gi].children, it))
  ELSE PropagateComplements(st, gi, After(st.g[gi].children, it))

(***************************************************************************)
(* JoinGates (lines 782-815).                                              *)
(***************************************************************************)
RECURSIVE JoinGates(_, _)
RECURSIVE JoinLoop(_, _, _, _)
JoinGates(st, gi) ==
  IF st.err # "" \/ gi \in st.processed THEN st
  ELSE JoinLoop([st EXCEPT !.processed = @ \cup {gi}], gi, st.g[gi].type,
                Begin(st.g[gi].children))

JoinLoop(st0, gi, parent, it) ==
  IF it = 0 \/ st0.err # "" THEN st0
  ELSE IF Abs(it) > TopIndex /\ Abs(it) \notin st0.mods
  THEN LET st == Expect(st0, it > 0, 790)
           child_gate == st.g[Abs(it)]
           child == child_gate.type
       IN IF st.err # "" THEN st
          ELSE IF parent = child
          THEN IF it < 0 THEN Fail(st, "ub")
               ELSE LET m == MergeGate(st.g[gi], child_gate)
                        st1 == SetGate(st, m.gate)
                    IN IF ~m.ret THEN st1
                       ELSE JoinLoop(st1, gi, parent, Begin(st1.g[gi].children))
          ELSE IF Cardinality(child_gate.children) = 1
          THEN LET sw == SwapChild(st.g[gi], it, Begin(child_gate.children))
                   st1 == SetGate(st, sw.gate)
               IN IF ~sw.ret THEN st1
                  ELSE JoinLoop(st1, gi, parent, Begin(st1.g[gi].children))
          ELSE LET st1 == JoinGates(st, Abs(it))
               IN JoinLoop(st1, gi, parent, After(st1.g[gi].children, it))
  ELSE JoinLoop(st0, gi, parent, After(st0.g[gi].children, it))

(***************************************************************************)
(* ProcessNullGates (lines 817-865).                                       *)
(***************************************************************************)
RECURSIVE ProcessNullGates(_, _)
RECURSIVE NullLoopOr(_, _, _)
RECURSIVE NullLoopAnd(_, _, _)
ProcessNullGates(st, gi) ==
  IF st.err # "" \/ gi \in st.processed THEN st
  ELSE LET st1 == [st EXCEPT !.processed = @ \cup {gi}]
           gate == st.g[gi]
       IN IF gate.state = "null"
          THEN LET st2 == Expect(st1, gate.type = 2, 827)
               IN IF st2.err # "" THEN st2
                  ELSE SetGate(st2, [gate EXCEPT !.children = {}])
          ELSE IF gate.type = 1
          THEN LET st2 == NullLoopOr(st1, gi, Begin(gate.children))
               IN IF st2.err = "" /\ st2.g[gi].children = {}
                  THEN SetGate(st2, Nullify(st2.g[gi])) ELSE st2
          ELSE NullLoopAnd(st1, gi, Begin(gate.children))

NullLoopOr(st0, gi, it) ==
  IF it = 0 \/ st0.err # "" THEN st0
  ELSE IF Abs(it) > TopIndex /\ Abs(it) \notin st0.mods
  THEN LET st == Expect(st0, it > 0, 837)
       IN IF st.err # "" THEN st
          ELSE IF it < 0 THEN Fail(st, "ub")
          ELSE LET st1 == Expect(st, st.g[it].type = 2, 839)
                   st2 == ProcessNullGates(st1, it)
               IN IF st2.err # "" THEN st2
                  ELSE IF st2.g[it].state = "null"
                  THEN LET st3 == SetGate(st2, EraseChild(st2.g[gi], it))
                       IN NullLoopOr(st3, gi, Begin(st3.g[gi].children))
                  ELSE NullLoopOr(st2, gi, After(st2.g[gi].children, it))
  ELSE NullLoopOr(st0, gi, After(st0.g[gi].children, it))

NullLoopAnd(st0, gi, it) ==
  IF it = 0 \/ st0.err # "" THEN st0
  ELSE IF Abs(it) > TopIndex /\ Abs(it) \notin st0.mods
  THEN LET st == Expect(st0, it > 0, 854)
       IN IF st.err # "" THEN st
          ELSE IF it < 0 THEN Fail(st, "ub")
          ELSE LET st1 == Expect(st, st.g[it].type = 1, 856)
                   st2 == ProcessNullGates(st1, it)
               IN IF st2.err # "" THEN st2
                  ELSE IF st2.g[it].state = "null"
                  THEN SetGate(st2, Nullify(st2.g[gi]))
                  ELSE NullLoopAnd(st2, gi, After(st2.g[gi].children, it))
  ELSE NullLoopAnd(st0, gi, After(st0.g[gi].children, it))

(***************************************************************************)
(* SimpleGate (specification 4.4; the class is not in src/).  gates is     *)
(* the std::set of pointers to child gates in insertion order; id is the   *)
(* index of the gate a node was projected from and stands for the          *)
(* identity of its pointer, 0 for a node made during the expansion.        *)
(***************************************************************************)
SimpleGate(type) ==
  [id |-> 0, type |-> type, basics |-> {}, modules |-> {}, gates |-> << >>]

InitiateWithBasic(sg, b) == [sg EXCEPT !.basics = @ \cup {b}]

InitiateWithModule(sg, m) == [sg EXCEPT !.modules = @ \cup {m}]

AddChildGate(sg, child) ==
  IF child.id # 0 /\ \E i \in 1..Len(sg.gates) : sg.gates[i].id = child.id THEN sg
  ELSE [sg EXCEPT !.gates = Append(@, child)]

(***************************************************************************)
(* CreateSimpleTree (lines 867-892).  The result of a call is the pair of  *)
(* the state and the simple gate.                                          *)
(***************************************************************************)
RECURSIVE CreateSimpleTree(_, _)
RECURSIVE SimpleLoop(_, _, _, _)
CreateSimpleTree(st0, gate_index) ==
  LET st == Expect(st0, gate_index > 0, 870)
  IN IF st.err # "" THEN [st |-> st, sg |-> SimpleGate(0)]
     ELSE IF gate_index \notin DOMAIN st.g
     THEN [st |-> Fail(st, "ub"), sg |-> SimpleGate(0)]
     ELSE SimpleLoop(st, gate_index,
                     [SimpleGate(st.g[gate_index].type) EXCEPT !.id = gate_index],
                     Begin(st.g[gate_index].children))

\* Lines 880-882: the simple gate of a child gate becomes a child.
SimpleChild(r, gi, simple_gate, next) ==
  SimpleLoop(r.st, gi, AddChildGate(simple_gate, r.sg), next)

SimpleLoop(st, gi, simple_gate, it) ==
  IF it = 0 \/ st.err # "" THEN [st |-> st, sg |-> simple_gate]
  ELSE IF Abs(it) > TopIndex
  THEN IF Abs(it) \in st.mods
       THEN SimpleLoop(st, gi, InitiateWithModule(simple_gate, it),
                       After(st.g[gi].children, it))
       ELSE SimpleChild(CreateSimpleTree(st, it), gi, simple_gate,
                        After(st.g[gi].children, it))
  ELSE SimpleLoop(Expect(st, Abs(it) < TopIndex, 887), gi,
                  InitiateWithBasic(simple_gate, it), After(st.g[gi].children, it))

AddBasic(sg, b) ==
  IF -b \in sg.basics THEN [sg |-> sg, ret |-> FALSE]
  ELSE [sg |-> [sg EXCEPT !.basics = @ \cup {b}], ret |-> TRUE]

AddModule(sg, m) ==
  IF -m \in sg.modules THEN [sg |-> sg, ret |-> FALSE]
  ELSE [sg |-> [sg EXCEPT !.modules = @ \cup {m}], ret |-> TRUE]

RECURSIVE AddChildGates(_, _, _)
AddChildGates(sg, gs, i) ==
  IF i > Len(gs) THEN sg ELSE AddChildGates(AddChildGate(sg, gs[i]), gs, i + 1)

\* SimpleGate::MergeGate: the basic events, modules and child gates of an
\* AND gate are joined into this AND gate unless a complement shows up.
SimpleMergeGate(sg, other) ==
  IF \/ \E b \in other.basics : -b \in sg.basics \cup other.basics
     \/ \E m \in other.modules : -m \in sg.modules \cup other.modules
  THEN [sg |-> sg, ret |-> FALSE]
  ELSE [sg |-> AddChildGates([sg EXCEPT !.basics = @ \cup other.basics,
                                        !.modules = @ \cup other.modules],
                             other.gates, 1),
        ret |-> TRUE]

JoinAsMcs(sg, other) ==
  [sg EXCEPT !.basics = @ \cup other.basics, !.modules = @ \cup other.modules]

\* A copy made with new SimpleGate(*ptr) is a new object.
CopyOf(sg) == [sg EXCEPT !.id = 0]

\* SetPtrComp: cut sets are keyed on their sorted basic events and modules.
SetPtrComp(lhs, rhs) ==
  \/ LexLess(lhs.basics, rhs.basics)
  \/ lhs.basics = rhs.basics /\ LexLess(lhs.modules, rhs.modules)

\* Insertion into a std::set<SimpleGatePtr, SetPtrComp>.
InsertOrdered(seq, x) ==
  IF \E i \in 1..Len(seq) : ~SetPtrComp(seq[i], x) /\ ~SetPtrComp(x, seq[i]) THEN seq
  ELSE LET k == Cardinality({i \in 1..Len(seq) : SetPtrComp(seq[i], x)})
       IN SubSeq(seq, 1, k) \o <<x>> \o SubSeq(seq, k + 1, Len(seq))

RECURSIVE InsertAll(_, _, _)
InsertAll(seq, xs, i) ==
  IF i > Len(xs) THEN seq ELSE InsertAll(InsertOrdered(seq, xs[i]), xs, i + 1)

\* Iteration over a std::set<SimpleGatePtr>.
Ord(st, gs) == IF st.rev THEN Reverse(gs) ELSE gs

Size(S) == Cardinality(S)

(***************************************************************************)
(* ExpandAndLayer and ExpandOrLayer (lines 894-967).                       *)
(***************************************************************************)
\* Products without the tests of lines 941 and 956 against limit_order_.
ProductsNoLimit(st, it, it_v) ==
  LET bs == SetToSeq(it_v.basics)
      ms == SetToSeq(it_v.modules)
      gs == Ord(st, it_v.gates)
      withBasic == [k \in 1..Len(bs) |-> AddBasic(CopyOf(it), bs[k])]
      withModule == [k \in 1..Len(ms) |-> AddModule(CopyOf(it), ms[k])]
      withGate == [k \in 1..Len(gs) |-> SimpleMergeGate(CopyOf(it), gs[k])]
      added(r) == r.ret
      kept == SelectSeq(withBasic, added) \o SelectSeq(withModule, added)
                \o SelectSeq(withGate, added)
  IN [k \in 1..Len(kept) |-> kept[k].sg]

\* Lines 937-963: the products of one child of the substitute with the
\* basic events, modules and gates of the OR gate it_v.
Products(st, it, it_v) ==
  LET bs == SetToSeq(it_v.basics)
      ms == SetToSeq(it_v.modules)
      gs == Ord(st, it_v.gates)
      withBasic == [k \in 1..Len(bs) |-> AddBasic(CopyOf(it), bs[k])]
      withModule == [k \in 1..Len(ms) |-> AddModule(CopyOf(it), ms[k])]
      withGate == [k \in 1..Len(gs) |-> SimpleMergeGate(CopyOf(it), gs[k])]
      bounded(r) == r.ret /\ Size(r.sg.basics) <= st.limit
      added(r) == r.ret
      kept == SelectSeq(withBasic, bounded) \o SelectSeq(withModule, added)
                \o SelectSeq(withGate, bounded)
  IN [k \in 1..Len(kept) |-> kept[k].sg]

RECURSIVE ProductsOfAll(_, _, _, _)
ProductsOfAll(st, children, i, it_v) ==
  IF i > Len(children) THEN << >>
  ELSE Products(st, children[i], it_v) \o ProductsOfAll(st, children, i + 1, it_v)

RECURSIVE AndLayerLoop(_, _, _, _)
AndLayerLoop(st, vs, i, substitute) ==
  IF i > Len(vs) \/ st.err # "" THEN [st |-> st, sg |-> substitute]
  ELSE LET st1 == Expect(st, vs[i].type = 1, 931)
           children == Ord(st, substitute.gates)
       IN AndLayerLoop(st1, vs, i + 1,
                       [substitute EXCEPT !.gates = ProductsOfAll(st, children, 1, vs[i])])

ExpandAndLayer(st0, gate) ==
  LET st1 == Expect(st0, gate.type = 2, 916)
      st2 == Expect(st1, Size(gate.basics) <= st0.limit, 917)
      st3 == Expect(st2, gate.gates # << >>, 918)
      child == [SimpleGate(2) EXCEPT !.basics = gate.basics, !.modules = gate.modules]
      substitute == AddChildGate(SimpleGate(1), child)
  IN AndLayerLoop(st3, Ord(st0, gate.gates), 1, substitute)

\* The gates left in gate->gates() by lines 911-912 are read by nobody.
RECURSIVE ExpandOrLayer(_, _, _)
RECURSIVE OrLayerLoop(_, _, _, _)
ExpandOrLayer(st, gate, cut_sets) ==
  IF gate.gates = << >> THEN [st |-> st, cut_sets |-> cut_sets]
  ELSE OrLayerLoop(st, Ord(st, gate.gates), 1, cut_sets)

\* Line 908: the OR layer of the gate that line 907 expanded.
ExpandedOrLayer(a, cut_sets) == ExpandOrLayer(a.st, a.sg, cut_sets)

\* Lines 898 and 909: on to the next child gate.
OrLayerNext(o, gs, i) == OrLayerLoop(o.st, gs, i, o.cut_sets)

OrLayerLoop(st, gs, i, cut_sets) ==
  IF i > Len(gs) \/ st.err # "" THEN [st |-> st, cut_sets |-> cut_sets]
  ELSE IF Size(gs[i].basics) > st.limit THEN OrLayerLoop(st, gs, i + 1, cut_sets)
  ELSE IF gs[i].gates = << >> THEN OrLayerLoop(st, gs, i + 1, Append(cut_sets, gs[i]))
  ELSE OrLayerNext(ExpandedOrLayer(ExpandAndLayer(st, CopyOf(gs[i])), cut_sets),
                   gs, i + 1)

(***************************************************************************)
(* MinimizeCutSets (lines 969-1016).                                       *)
(***************************************************************************)
Includes(cut_set, lower) ==
  lower.basics \subseteq cut_set.basics /\ lower.modules \subseteq cut_set.modules

RECURSIVE MinimizeCutSets(_, _, _, _)
MinimizeCutSets(cut_sets, mcs_lower_order, min_order, min_gates_out) ==
  IF cut_sets = << >> THEN min_gates_out
  ELSE LET include(c) ==
             ~\E i \in 1..Len(mcs_lower_order) : Includes(c, mcs_lower_order[i])
           ofOrder(c) == Size(c.basics) + Size(c.modules) = min_order
           isMin(c) == include(c) /\ ofOrder(c)
           isAbove(c) == include(c) /\ ~ofOrder(c)
           temp_min_sets == SelectSeq(cut_sets, isMin)
           temp_sets == SelectSeq(cut_sets, isAbove)
       IN MinimizeCutSets(temp_sets, temp_min_sets, min_order + 1,
                          min_gates_out \o temp_min_sets)

(***************************************************************************)
(* FindMcsFromSimpleGate (lines 227-318).  The result is the pair of the   *)
(* state and the vector min_gates with the new cut sets appended.          *)
(***************************************************************************)
RECURSIVE CheckCutSets(_, _, _)
CheckCutSets(st, cut_sets, i) ==
  IF i > Len(cut_sets) \/ st.err # "" THEN st
  ELSE CheckCutSets(Expect(Expect(st, cut_sets[i].type = 2, 280),
                           cut_sets[i].gates = << >>, 281),
                    cut_sets, i + 1)

RECURSIVE CheckUnique(_, _, _)
CheckUnique(st, sets, i) ==
  IF i > Len(sets) \/ st.err # "" THEN st
  ELSE CheckUnique(Expect(st, sets[i].modules # {} \/ sets[i].basics # {}, 294),
                   sets, i + 1)

OneElement(c) ==
  \/ Size(c.basics) = 1 /\ c.modules = {}
  \/ Size(c.modules) = 1 /\ c.basics = {}

\* Lines 315-317: the cut sets of more than one element are minimized
\* against the one-element sets already in min_gates.
MinimizedSets(st, sets_unique, min_gates_in, min_gates) ==
  [st |-> st,
   min_gates |-> IF st.err # "" THEN min_gates_in
                 ELSE MinimizeCutSets(sets_unique, min_gates, 2, min_gates)]

NotOneElement(c) == ~OneElement(c)

\* Lines 260-288: the sets of one element, those of the gate first.
OneElementSets(gate, cut_sets) ==
  LET bs == SetToSeq(gate.basics)
      ms == SetToSeq(gate.modules)
      ones0 == [k \in 1..Len(bs) |-> InitiateWithBasic(SimpleGate(2), bs[k])]
                 \o [k \in 1..Len(ms) |-> InitiateWithModule(SimpleGate(2), ms[k])]
  IN InsertAll(InsertAll(<< >>, ones0, 1), SelectSeq(cut_sets, OneElement), 1)

\* Lines 289-303: the other cut sets, each once.
UniqueCutSets(cut_sets) == InsertAll(<< >>, SelectSeq(cut_sets, NotOneElement), 1)

\* Lines 257-311: the one-element sets and the unique cut sets.
CollectCutSets(st, gate, cut_sets, min_gates_in) ==
  MinimizedSets(CheckUnique(CheckCutSets(st, cut_sets, 1), UniqueCutSets(cut_sets), 1),
                UniqueCutSets(cut_sets), min_gates_in,
                min_gates_in \o OneElementSets(gate, cut_sets))

\* Lines 253-317 on the cut sets that ExpandOrLayer gathered.
CutSetsOfLayer(o, gate, min_gates_in) ==
  CollectCutSets(o.st, gate, o.cut_sets, min_gates_in)

\* Lines 250-251: the OR layer of the gate is expanded into cut_sets.
CutSetsOfGate(a, min_gates_in) ==
  CutSetsOfLayer(ExpandOrLayer(a.st, a.sg, << >>), a.sg, min_gates_in)

FindMcsFromSimpleGate(st, gate, min_gates_in) ==
  IF st.err # "" THEN [st |-> st, min_gates |-> min_gates_in]
  ELSE IF gate.basics = {} /\ gate.gates = << >> /\ gate.modules = {}
  THEN [st |-> st, min_gates |-> min_gates_in]
  ELSE IF gate.type = 2 /\ Size(gate.basics) > st.limit
  THEN [st |-> st, min_gates |-> min_gates_in]
  ELSE IF gate.type = 2 /\ gate.gates = << >>
  THEN [st |-> st, min_gates |-> Append(min_gates_in, CopyOf(gate))]
  ELSE CutSetsOfGate(IF gate.type = 2 THEN ExpandAndLayer(st, gate)
                     ELSE [st |-> st, sg |-> gate],
                     min_gates_in)

(***************************************************************************)
(* FindMcsFromModule (lines 177-225).                                      *)
(***************************************************************************)
\* Lines 195-198: the module is a complement, its gate is turned into its dual.
InvertModule(st, index) ==
  IF st.err = "" /\ index < 0
  THEN SetGate(st, InvertChildren([st.g[Abs(index)] EXCEPT
                                     !.type = IF @ = 1 THEN 2 ELSE 1]))
  ELSE st

\* Lines 199-202: complements are pushed down from the gate of the module.
PropagateModuleComplements(st, gi) ==
  PropagateComplements([st EXCEPT !.complements = << >>, !.processed = {}],
                       gi, Begin(st.g[gi].children))

\* Lines 205-206.
JoinModuleGates(st, gi) == JoinGates([st EXCEPT !.processed = {}], gi)

\* Lines 210-211.
ProcessModuleNullGates(st, gi) == ProcessNullGates([st EXCEPT !.processed = {}], gi)

\* Lines 188-190: complex gates of the module are unrolled.
UnrollModuleTop(st, gi) == IF st.err # "" THEN st ELSE UnrollComplexTopGate(st, gi)

\* The rewrites of lines 185-211 on the gate of the module.
PreprocessModule(st, index) ==
  ProcessModuleNullGates(
    JoinModuleGates(
      PropagateModuleComplements(
        InvertModule(UnrollModuleTop(Expect(st, index # 0, 185), Abs(index)), index),
        Abs(index)),
      Abs(index)),
    Abs(index))

\* Line 224 on the simple tree of the module.
McsOfSimpleTree(r, min_gates_in) == FindMcsFromSimpleGate(r.st, r.sg, min_gates_in)

\* Lines 214-224 on the preprocessed module.
McsOfPreprocessed(st, index, min_gates_in) ==
  IF st.err # "" THEN [st |-> st, min_gates |-> min_gates_in]
  ELSE McsOfSimpleTree(CreateSimpleTree(st, Abs(index)), min_gates_in)

FindMcsFromModule(st, index, min_gates_in) ==
  McsOfPreprocessed(PreprocessModule(st, index), index, min_gates_in)

(***************************************************************************)
(* FindMcs (lines 73-175): the call for the top module, then one           *)
(* iteration of the loop over min_gates at a time.                         *)
(***************************************************************************)
\* Lines 121-139: the complement of the cut sets of the negated module.
RECURSIVE ComplementOf(_, _, _)
ComplementOf(mcs, i, complement) ==
  IF i > Len(mcs) THEN complement
  ELSE ComplementOf(mcs, i + 1,
         AddChildGate(complement,
                      [SimpleGate(1) EXCEPT !.basics = Negate(mcs[i].basics),
                                            !.modules = Negate(mcs[i].modules)]))

\* JoinedSets without the test of line 155 against limit_order_.
RECURSIVE JoinedSetsNoLimit(_, _, _, _, _)
JoinedSetsNoLimit(limit, new_sets, module_mcs, n, m) ==
  IF n > Len(new_sets) THEN << >>
  ELSE IF m > Len(module_mcs)
  THEN JoinedSetsNoLimit(limit, new_sets, module_mcs, n + 1, 1)
  ELSE <<JoinAsMcs(CopyOf(new_sets[n]), module_mcs[m])>>
       \o JoinedSetsNoLimit(limit, new_sets, module_mcs, n, m + 1)

\* Lines 152-163: the product of the sets so far with the cut sets of a module.
RECURSIVE JoinedSets(_, _, _, _, _)
JoinedSets(limit, new_sets, module_mcs, n, m) ==
  IF n > Len(new_sets) THEN << >>
  ELSE IF m > Len(module_mcs) THEN JoinedSets(limit, new_sets, module_mcs, n + 1, 1)
  ELSE (IF Size(new_sets[n].basics) + Size(module_mcs[m].basics) <= limit
        THEN <<JoinAsMcs(CopyOf(new_sets[n]), module_mcs[m])>> ELSE << >>)
       \o JoinedSets(limit, new_sets, module_mcs, n, m + 1)

\* Lines 147-164: the sets so far are joined with the cut sets of the module
\* it, which are in the cache; a module without cut sets is skipped.
RECURSIVE ExpandModules(_, _, _, _, _)
JoinModule(st, cache0, cache, mods, it, new_sets) ==
  IF st.err # "" THEN [st |-> st, cache |-> cache0, new_sets |-> new_sets]
  ELSE ExpandModules(st, cache, mods, After(mods, it),
                     IF cache[it] = << >> THEN new_sets
                     ELSE JoinedSets(st.limit, new_sets, cache[it], 1, 1))

\* Line 145: the cut sets found for the module it enter the cache.
CacheModule(r, cache, mods, it, new_sets) ==
  JoinModule(r.st, cache, cache @@ (it :> r.min_gates), mods, it, new_sets)

\* ExpandModules without the look-up in processed_modules: every occurrence
\* of a module is expanded by FindMcsFromModule again.
ExpandModulesAgain(st, cache, mods, it, new_sets) ==
  IF it = 0 \/ st.err # "" THEN [st |-> st, cache |-> cache, new_sets |-> new_sets]
  ELSE CacheModule(FindMcsFromModule(st, it, << >>),
                   [m \in DOMAIN cache \ {it} |-> cache[m]], mods, it, new_sets)

\* Lines 110-165: the loop over the modules of a cut set.
ExpandModules(st, cache, mods, it, new_sets) ==
  IF it = 0 \/ st.err # "" THEN [st |-> st, cache |-> cache, new_sets |-> new_sets]
  ELSE IF it \in DOMAIN cache THEN JoinModule(st, cache, cache, mods, it, new_sets)
  ELSE CacheModule(IF -it \in DOMAIN cache
                   THEN FindMcsFromSimpleGate(
                          st, ComplementOf(cache[-it], 1, SimpleGate(2)), << >>)
                   ELSE FindMcsFromModule(st, it, << >>),
                   cache, mods, it, new_sets)

\* Line 167: the new sets go to the end of min_gates.
AppendNewSets(e, rest, result) ==
  [st |-> e.st, work |-> rest \o e.new_sets, cache |-> e.cache, result |-> result]

\* ProcessCutSet that puts a cut set with modules back on min_gates as it is.
ProcessCutSetAgain(st, cut_set, rest, cache, result) ==
  IF st.err # "" THEN [st |-> st, work |-> rest, cache |-> cache, result |-> result]
  ELSE IF cut_set.modules = {}
  THEN [st |-> st, work |-> rest, cache |-> cache,
        result |-> Append(result, cut_set.basics)]
  ELSE [st |-> st, work |-> Append(rest, cut_set), cache |-> cache, result |-> result]

\* Lines 99-167 on the cut set taken from the back of min_gates.
ProcessCutSet(st, cut_set, rest, cache, result) ==
  IF st.err # "" THEN [st |-> st, work |-> rest, cache |-> cache, result |-> result]
  ELSE IF cut_set.modules = {}
  THEN [st |-> st, work |-> rest, cache |-> cache,
        result |-> Append(result, cut_set.basics)]
  ELSE AppendNewSets(
         ExpandModules(st, cache, cut_set.modules, Begin(cut_set.modules),
                       <<[SimpleGate(2) EXCEPT !.basics = cut_set.basics]>>),
         rest, result)

\* Lines 95-168: one iteration of the loop.
FindMcsIteration(st, work, cache, result) ==
  ProcessCutSet(Expect(st, work[Len(work)].gates = << >>, 97), work[Len(work)],
                SubSeq(work, 1, Len(work) - 1), cache, result)

(***************************************************************************)
(* State of a run.                                                         *)
(***************************************************************************)
VARIABLES
  pc,                 \* the next call of the pipeline
  input,              \* the symbolic tree (int_to_inter)
  order,              \* iteration order of the hash maps of gates
  true_house_events, false_house_events,
  limit_order,        \* limit_order_
  ndebug,             \* the build has assertions compiled out
  indexed_gates,      \* indexed_gates_
  new_gate_index,     \* new_gate_index_
  top_event_sign,     \* top_event_sign_
  modules,            \* modules_
  min_gates,          \* the work list of FindMcs
  processed_modules,  \* the module cache of FindMcs
  imcs,               \* imcs_, the result list
  failed,             \* lines of the assertions violated so far
  err,                \* "" or how the run ended early
  component,          \* the tables of a Component (fault_tree.cc)
  call,               \* the last call made on the Component
  thrown,             \* the exception that call raised, "" if none
  analysis,           \* the containers of a RiskAnalysis (risk_analysis.cc)
  doc,                \* the elements of the input file read so far
  status,             \* how far ProcessInput is, or how it ended
  checked_gate,       \* the gate given to CheckGate
  message,            \* the message CheckGate returned for it
  fault_tree          \* a FaultTree, its gates and top_events_ (fault_tree.cc)

\* The state of a run of the indexed fault tree.
tree_vars ==
  <<pc, input, order, true_house_events, false_house_events, limit_order, ndebug,
    indexed_gates, new_gate_index, top_event_sign, modules, min_gates,
    processed_modules, imcs, failed, err>>

\* The state of the front end, which the indexed fault tree never touches.
front_end ==
  <<component, call, thrown, analysis, doc, status, checked_gate, message, fault_tree>>

vars == <<tree_vars, front_end>>

Cur ==
  [g |-> indexed_gates, ngi |-> new_gate_index, sign |-> top_event_sign,
   mods |-> modules, failed |-> failed, err |-> err, ndebug |-> ndebug,
   limit |-> limit_order, rev |-> FALSE,
   processed |-> {}, unrolled |-> {}, complements |-> << >>,
   time |-> 0, vb |-> << >>, visited |-> << >>, min |-> 0, max |-> 0]

Store(st, next) ==
  /\ indexed_gates' = st.g
  /\ new_gate_index' = st.ngi
  /\ top_event_sign' = st.sign
  /\ modules' = st.mods
  /\ failed' = st.failed
  /\ err' = st.err
  /\ pc' = IF st.err # "" THEN "stopped" ELSE next

(***************************************************************************)
(* Component (fault_tree.cc).  The header of Component, ElementTable and   *)
(* the classes of the elements are not part of src/: a table is modelled   *)
(* as a function from the names of its elements to the elements, which     *)
(* count() and find() look up by name and into which insert() puts an      *)
(* element unless its name is taken.  An element is a record of its name   *)
(* and the identity obj of its object; a CCF group is a record of its      *)
(* name and the table of its members.                                      *)
(***************************************************************************)
Names == {"a", "b"}

GroupNames == {"g", "h"}

Objects == {1, 2}

\* The tables of a Component after its constructor (lines 27-29).
NewComponent ==
  [gates |-> << >>, basic_events |-> << >>, house_events |-> << >>,
   ccf_groups |-> << >>]

\* insert() of a table.
TableInsert(table, name, element) ==
  IF name \in DOMAIN table THEN table ELSE table @@ (name :> element)

\* erase() of a table.
TableErase(table, name) == [n \in DOMAIN table \ {name} |-> table[n]]

\* The outcome of a call: the tables and the exception raised, "" if none.
Returned(c) == [component |-> c, thrown |-> ""]

Thrown(c, error) == [component |-> c, thrown |-> error]

\* CheckDuplicateEvent without the look-up in house_events_.
CheckDuplicateEventNoHouse(c, name) ==
  \/ name \in DOMAIN c.gates
  \/ name \in DOMAIN c.basic_events

\* CheckDuplicateEvent throws: the name is in one of the three tables.
CheckDuplicateEvent(c, name) ==
  \/ name \in DOMAIN c.gates
  \/ name \in DOMAIN c.basic_events
  \/ name \in DOMAIN c.house_events

\* Component::Add for a gate, a basic event or a house event; kind is the
\* table the overload inserts into.
Add(c, kind, event) ==
  IF CheckDuplicateEvent(c, event.name) THEN Thrown(c, "DuplicateElementError")
  ELSE Returned([c EXCEPT ![kind] = TableInsert(@, event.name, event.obj)])

\* The members of a group in the order of its vector.
RECURSIVE NamesInOrder(_)
NamesInOrder(S) ==
  IF S = {} THEN << >>
  ELSE <<CHOOSE n \in S : TRUE>> \o NamesInOrder(S \ {CHOOSE n \in S : TRUE})

\* The loop of lines 58-59: the members go into basic_events_.
RECURSIVE InsertMembers(_, _, _)
InsertMembers(table, members, names) ==
  IF names = << >> THEN table
  ELSE InsertMembers(TableInsert(table, names[1], members[names[1]]),
                     members, Tail(names))

\* Component::Add for a CCF group.
AddCcfGroup(c, ccf_group) ==
  IF ccf_group.name \in DOMAIN c.ccf_groups
  THEN Thrown(c, "DuplicateElementError")
  ELSE IF \E name \in DOMAIN ccf_group.members : CheckDuplicateEvent(c, name)
  THEN Thrown(c, "DuplicateElementError")
  ELSE Returned([c EXCEPT
         !.basic_events = InsertMembers(@, ccf_group.members,
                                        NamesInOrder(DOMAIN ccf_group.members)),
         !.ccf_groups = TableInsert(@, ccf_group.name, ccf_group.members)])

\* RemoveEvent and the three overloads of Component::Remove.
RemoveEvent(c, kind, event) ==
  IF event.name \notin DOMAIN c[kind] THEN Thrown(c, "UndefinedElement")
  ELSE IF c[kind][event.name] # event.obj THEN Thrown(c, "UndefinedElement")
  ELSE Returned([c EXCEPT ![kind] = TableErase(@, event.name)])

(***************************************************************************)
(* FaultTree::CollectTopEvents (fault_tree.cc).  Gate and Formula are not  *)
(* part of src/: a gate is one of the objects GateObjects, args gives the  *)
(* gates among the arguments of its formula and mark its mark.  A          *)
(* component is a record of the set of its gates and the sequence of its   *)
(* components.  order is the order in which the std::unordered_set of      *)
(* gate pointers is iterated.                                              *)
(***************************************************************************)
GateObjects == 1..3

\* No FaultTree was made.
NoFaultTree ==
  [root |-> [gates |-> {}, components |-> << >>], args |-> << >>, mark |-> << >>,
   order |-> << >>, top_events |-> << >>, calls |-> 0]

\* Component::GatherGates (lines 90-94).
RECURSIVE GatherGates(_)
GatherGates(c) ==
  c.gates \cup UNION {GatherGates(c.components[i]) : i \in DOMAIN c.components}

RECURSIVE MarkNonTopGates(_, _, _, _)
RECURSIVE MarkArgs(_, _, _, _, _)
\* FaultTree::MarkNonTopGates (lines 123-135): the marks after the call.
MarkNonTopGates(mark, args, gate, gates) ==
  IF mark[gate] THEN mark
  ELSE MarkArgs(mark, args, SetToSeq(args[gate]), 1, gates)

\* MarkArgs that marks an argument without the call of MarkNonTopGates for
\* it.
MarkArgsOnly(mark, args, formula_args, i, gates) ==
  IF i > Len(formula_args) THEN mark
  ELSE IF formula_args[i] \in gates
  THEN MarkArgs([mark EXCEPT ![formula_args[i]] = TRUE], args, formula_args, i + 1, gates)
  ELSE MarkArgs(mark, args, formula_args, i + 1, gates)

\* Lines 127-134: the loop over the arguments of the formula.
MarkArgs(mark, args, formula_args, i, gates) ==
  IF i > Len(formula_args) THEN mark
  ELSE IF formula_args[i] \in gates
  THEN MarkArgs([MarkNonTopGates(mark, args, formula_args[i], gates)
                   EXCEPT ![formula_args[i]] = TRUE],
                args, formula_args, i + 1, gates)
  ELSE MarkArgs(mark, args, formula_args, i + 1, gates)

\* Lines 111-112: MarkNonTopGates for every gate gathered.
RECURSIVE MarkAll(_, _, _, _, _)
MarkAll(mark, args, ord, i, gates) ==
  IF i > Len(ord) THEN mark
  ELSE MarkAll(MarkNonTopGates(mark, args, ord[i], gates), args, ord, i + 1, gates)

\* Lines 114-120: a marked gate is cleared, another gate is a top event.
RECURSIVE Sweep(_, _, _)
Sweep(ft, ord, i) ==
  IF i > Len(ord) THEN ft
  ELSE IF ft.mark[ord[i]]
  THEN Sweep([ft EXCEPT !.mark[ord[i]] = FALSE], ord, i + 1)
  ELSE Sweep([ft EXCEPT !.top_events = Append(@, ord[i])], ord, i + 1)

\* The iteration of the set of gates gathered.
Gathered(ft) == GatherGates(ft.root)

InGathered(ft, gate) == gate \in Gathered(ft)

IterationOrder(ft) ==
  LET gathered(gate) == InGathered(ft, gate) IN SelectSeq(ft.order, gathered)

\* FaultTree::CollectTopEvents (lines 106-121).
CollectTopEvents(ft) ==
  Sweep([ft EXCEPT !.top_events = << >>,
                   !.mark = MarkAll(ft.mark, ft.args, IterationOrder(ft), 1, Gathered(ft))],
        IterationOrder(ft), 1)

\* No call was made on the Component yet.
NoCall == [op |-> "none", kind |-> "", name |-> "", obj |-> 0, members |-> << >>]

\* The containers of a RiskAnalysis after its constructor (lines 21-51).
NewAnalysis ==
  [gates |-> << >>, primary_events |-> << >>, tbd_gates |-> {},
   tbd_basic_events |-> {}, tbd_house_events |-> {}, tbd_events |-> << >>,
   prob_requested |-> FALSE]

(***************************************************************************)
(* RiskAnalysis::ProcessInput (risk_analysis.cc).  The classes Gate,       *)
(* BasicEvent and HouseEvent are not part of src/: a gate is a record of   *)
(* its type, its vote number and the set of the ids of its children (its   *)
(* map of children is keyed by id), a primary event a record of its kind   *)
(* and of whether its probability was set.  An element of the input is a   *)
(* record [tag, name, type, min, children], children being the sequence    *)
(* of the references [tag, name] inside a gate definition.                 *)
(***************************************************************************)
MaxElements == 2

MaxChildren == 2

Ids == {"a", "b"}

\* gate_types_ (lines 28-38).
gate_types ==
  {"and", "or", "not", "nor", "nand", "xor", "null", "inhibit", "vote", "atleast"}

\* The result of a step of ProcessInput: the containers and the error
\* thrown, "" if none.
Went(ra) == [analysis |-> ra, thrown |-> ""]

ValidationError(ra, what) == [analysis |-> ra, thrown |-> what]

\* Gate::AddChild on the gate parent of gates_.
GateAddChild(ra, parent, id) ==
  [ra EXCEPT !.gates[parent].children = @ \cup {id}]

\* The loops over tbd_events_[id]: every gate that waits for id gets the
\* child, and the entry is erased.
RECURSIVE AddToWaiting(_, _, _)
AddToWaiting(ra, waiting, id) ==
  IF waiting = << >> THEN ra
  ELSE AddToWaiting(GateAddChild(ra, waiting[1], id), Tail(waiting), id)

ResolveTbdEvent(ra, id) ==
  IF id \in DOMAIN ra.tbd_events
  THEN [AddToWaiting(ra, ra.tbd_events[id], id) EXCEPT
          !.tbd_events = [n \in DOMAIN ra.tbd_events \ {id} |-> ra.tbd_events[n]]]
  ELSE ra

\* The id is known as a primary event, defined or to be defined.
IsPrimary(ra, id) ==
  \/ id \in DOMAIN ra.primary_events
  \/ id \in ra.tbd_basic_events
  \/ id \in ra.tbd_house_events

IsGateId(ra, id) == id \in DOMAIN ra.gates \/ id \in ra.tbd_gates

\* A reference <event name="id"/> in the gate i_event (lines 292-307).
ChildEvent(ra, i_event, id) ==
  IF IsPrimary(ra, id) \/ IsGateId(ra, id)
  THEN Went(GateAddChild(ra, i_event, id))
  ELSE Went([ra EXCEPT !.tbd_events =
               IF id \in DOMAIN @ THEN [@ EXCEPT ![id] = Append(@, i_event)]
               ELSE @ @@ (id :> <<i_event>>)])

\* A reference <gate name="id"/> (lines 308-336).
ChildGate(ra, i_event, id) ==
  IF IsPrimary(ra, id) THEN ValidationError(ra, "primary event")
  ELSE IF IsGateId(ra, id) THEN Went(GateAddChild(ra, i_event, id))
  ELSE Went(GateAddChild(ResolveTbdEvent([ra EXCEPT !.tbd_gates = @ \cup {id}], id),
                         i_event, id))

\* A reference <basic-event name="id"/> (lines 338-372).
ChildBasicEvent(ra, i_event, id) ==
  IF IsGateId(ra, id) THEN ValidationError(ra, "gate")
  ELSE IF id \in DOMAIN ra.primary_events /\ ra.primary_events[id].kind # "basic"
  THEN ValidationError(ra, "house event")
  ELSE IF id \in ra.tbd_basic_events THEN Went(GateAddChild(ra, i_event, id))
  ELSE Went(GateAddChild(
              ResolveTbdEvent([ra EXCEPT !.tbd_basic_events = @ \cup {id}], id),
              i_event, id))

\* A reference <house-event name="id"/> (lines 374-408).
ChildHouseEvent(ra, i_event, id) ==
  IF IsGateId(ra, id) THEN ValidationError(ra, "gate")
  ELSE IF id \in DOMAIN ra.primary_events /\ ra.primary_events[id].kind # "house"
  THEN ValidationError(ra, "basic event")
  ELSE IF id \in ra.tbd_house_events THEN Went(GateAddChild(ra, i_event, id))
  ELSE Went(GateAddChild(
              ResolveTbdEvent([ra EXCEPT !.tbd_house_events = @ \cup {id}], id),
              i_event, id))

Child(ra, i_event, ref) ==
  CASE ref.tag = "event" -> ChildEvent(ra, i_event, ref.name)
    [] ref.tag = "gate" -> ChildGate(ra, i_event, ref.name)
    [] ref.tag = "basic-event" -> ChildBasicEvent(ra, i_event, ref.name)
    [] ref.tag = "house-event" -> ChildHouseEvent(ra, i_event, ref.name)

\* The loop over the children of a gate definition (lines 268-415); r is
\* the result so far.
RECURSIVE Children(_, _, _)
Children(r, i_event, refs) ==
  IF refs = << >> \/ r.thrown # "" THEN r
  ELSE Children(Child(r.analysis, i_event, refs[1]), i_event, Tail(refs))

\* Lines 242-265: the new gate, or the gate that was to be defined, goes
\* into gates_ with its type and vote number.
InsertGateDefinition(ra, el) ==
  [(IF el.name \in ra.tbd_gates
    THEN [ra EXCEPT !.tbd_gates = @ \ {el.name}]
    ELSE ResolveTbdEvent(ra, el.name)) EXCEPT
     !.gates = @ @@ (el.name :> [type |-> el.type,
                                 vote_number |-> IF el.type = "atleast"
                                                 THEN el.min ELSE -1,
                                 children |-> {}, conditional |-> {}])]

\* RiskAnalysis::DefineGate (lines 185-416).
DefineGate(ra, el) ==
  IF el.type \notin gate_types THEN ValidationError(ra, "not supported")
  ELSE IF el.name \in DOMAIN ra.gates THEN ValidationError(ra, "doubly defined")
  ELSE IF IsPrimary(ra, el.name) THEN ValidationError(ra, "primary event")
  ELSE Children(Went(InsertGateDefinition(ra, el)), el.name, el.children)

\* RiskAnalysis::DefineBasicEvent (lines 418-490).
DefineBasicEvent(ra, id) ==
  IF IsGateId(ra, id) THEN ValidationError(ra, "gate")
  ELSE IF id \in DOMAIN ra.primary_events THEN ValidationError(ra, "doubly defined")
  ELSE IF id \in ra.tbd_house_events THEN ValidationError(ra, "house event")
  ELSE IF id \in ra.tbd_basic_events
  THEN Went([ra EXCEPT !.primary_events = @ @@ (id :> [kind |-> "basic", p |-> TRUE]),
                       !.tbd_basic_events = @ \ {id}])
  ELSE Went(ResolveTbdEvent(
              [ra EXCEPT !.primary_events = @ @@ (id :> [kind |-> "basic", p |-> TRUE])],
              id))

\* RiskAnalysis::DefineHouseEvent (lines 492-557).
DefineHouseEvent(ra, id) ==
  IF IsGateId(ra, id) THEN ValidationError(ra, "gate")
  ELSE IF id \in DOMAIN ra.primary_events THEN ValidationError(ra, "doubly defined")
  ELSE IF id \in ra.tbd_basic_events THEN ValidationError(ra, "basic event")
  ELSE IF id \in ra.tbd_house_events
  THEN Went([ra EXCEPT !.primary_events = @ @@ (id :> [kind |-> "house", p |-> TRUE]),
                       !.tbd_house_events = @ \ {id}])
  ELSE Went(ResolveTbdEvent(
              [ra EXCEPT !.primary_events = @ @@ (id :> [kind |-> "house", p |-> TRUE])],
              id))

\* DefineFaultTree (lines 559-587) and ProcessModelData (lines 589-605) for
\* one element.
Define(ra, el) ==
  CASE el.tag = "define-gate" -> DefineGate(ra, el)
    [] el.tag = "define-basic-event" ->
         DefineBasicEvent([ra EXCEPT !.prob_requested = TRUE], el.name)
    [] el.tag = "define-house-event" ->
         DefineHouseEvent([ra EXCEPT !.prob_requested = TRUE], el.name)

\* RiskAnalysis::CheckGate (lines 619-693): the message, "" if the gate is
\* accepted.  children() throws ValueError when there are no children;
\* conditional holds the children that are conditional events.
CheckGate(event) ==
  IF event.children = {} THEN "No children detected"
  ELSE IF event.type \in {"and", "or", "nor", "nand"}
  THEN IF Cardinality(event.children) < 2 THEN "2 or more children" ELSE ""
  ELSE IF event.type = "xor"
  THEN IF Cardinality(event.children) # 2 THEN "exactly 2 children" ELSE ""
  ELSE IF event.type = "inhibit"
  THEN IF Cardinality(event.children) # 2 THEN "exactly 2 children"
       ELSE IF Cardinality(event.conditional) > 1 THEN "exactly one conditional event"
       ELSE IF event.conditional = {} THEN "missing a conditional event"
       ELSE ""
  ELSE IF event.type \in {"not", "null"}
  THEN IF Cardinality(event.children) # 1 THEN "exactly one child" ELSE ""
  ELSE IF event.type \in {"vote", "atleast"}
  THEN IF Cardinality(event.children) <= event.vote_number
       THEN "more children than its vote number" ELSE ""
  ELSE "No check"

\* RiskAnalysis::CheckAllGates (lines 607-617): no gate has a message.
CheckAllGates(ra) == \A id \in DOMAIN ra.gates : CheckGate(ra.gates[id]) = ""

\* RiskAnalysis::PrimariesNoProb (lines 695-708): no primary event is
\* without a probability.
PrimariesNoProb(ra) == \A id \in DOMAIN ra.primary_events : ra.primary_events[id].p

\* Lines 102-111: the house events that were only referenced are false.
DefaultHouseEvents(ra) ==
  IF ra.tbd_house_events = {} THEN ra
  ELSE [ra EXCEPT !.prob_requested = TRUE,
                  !.primary_events =
                     @ @@ [id \in ra.tbd_house_events |-> [kind |-> "house", p |-> TRUE]]]

\* Lines 112-120: the basic events that were only referenced.
DefaultBasicEvents(ra) ==
  IF ra.tbd_basic_events = {} THEN ra
  ELSE [ra EXCEPT !.prob_requested = FALSE,
                  !.primary_events =
                     @ @@ [id \in ra.tbd_basic_events |-> [kind |-> "basic", p |-> FALSE]]]

\* Lines 121-132: a reference of unknown type becomes a new basic event,
\* a child of the gates that wait for it.
RECURSIVE AddUntyped(_, _)
AddUntyped(ra, ids) ==
  IF ids = {} THEN ra
  ELSE AddUntyped(AddToWaiting(ra, ra.tbd_events[CHOOSE id \in ids : TRUE],
                               CHOOSE id \in ids : TRUE),
                  ids \ {CHOOSE id \in ids : TRUE})

DefaultEvents(ra) ==
  IF ra.tbd_events = << >> THEN ra
  ELSE AddUntyped([ra EXCEPT !.prob_requested = FALSE], DOMAIN ra.tbd_events)

\* Lines 133-164: the checks at the end of ProcessInput.
FinalChecks(ra) ==
  IF ra.tbd_gates # {} THEN ValidationError(ra, "Undefined gates")
  ELSE IF ~CheckAllGates(ra) THEN ValidationError(ra, "problems with gates")
  ELSE IF ra.prob_requested /\ ~PrimariesNoProb(ra)
  THEN ValidationError(ra, "Missing probabilities")
  ELSE Went(ra)

\* RiskAnalysis::ProcessInput after the loop over the elements (lines
\* 99-164).
ProcessInputEnd(ra) ==
  FinalChecks(DefaultEvents(DefaultBasicEvents(DefaultHouseEvents(ra))))

\* No gate was given to CheckGate.
NoGate == [type |-> "", vote_number |-> -1, children |-> {}, conditional |-> {}]

FrontEndIdle ==
  /\ component = NewComponent
  /\ call = NoCall
  /\ thrown = ""
  /\ analysis = NewAnalysis
  /\ doc = << >>
  /\ status = "idle"
  /\ checked_gate = NoGate
  /\ message = "not checked"
  /\ fault_tree = NoFaultTree

\* No indexed fault tree was made.
TreeIdle ==
  /\ pc = "idle"
  /\ input = << >>
  /\ order = << >>
  /\ true_house_events = {}
  /\ false_house_events = {}
  /\ limit_order = 0
  /\ ndebug = TRUE
  /\ indexed_gates = << >>
  /\ new_gate_index = 0
  /\ top_event_sign = 1
  /\ modules = {}
  /\ min_gates = << >>
  /\ processed_modules = << >>
  /\ imcs = << >>
  /\ failed = {}
  /\ err = ""

HouseEvents == 1..MaxHouse

Init ==
  /\ pc = "initiate"
  /\ input \in Trees
  /\ order \in Perms(DOMAIN input)
  /\ true_house_events \in SUBSET HouseEvents
  /\ false_house_events \in SUBSET (HouseEvents \ true_house_events)
  /\ limit_order \in 1..MaxLimit
  /\ ndebug \in BOOLEAN
  /\ indexed_gates = << >>
  /\ new_gate_index = 0
  /\ top_event_sign = 1
  /\ modules = {}
  /\ min_gates = << >>
  /\ processed_modules = << >>
  /\ imcs = << >>
  /\ failed = {}
  /\ err = ""
  /\ FrontEndIdle

\* FaultTreeAnalysis calls InitiateIndexedFaultTree on the new object.  The
\* hash maps are not iterated again afterwards.
Initiate ==
  /\ pc = "initiate"
  /\ Store(InitiateIndexedFaultTree(Cur, input, order), "constants")
  /\ order' = << >>
  /\ UNCHANGED <<front_end, input, true_house_events, false_house_events, limit_order, ndebug,
                 min_gates, processed_modules, imcs>>

Constants ==
  /\ pc = "constants"
  /\ Store(PropagateConstants(Cur, true_house_events, false_house_events), "modules")
  /\ UNCHANGED <<front_end, input, order, true_house_events, false_house_events, limit_order,
                 ndebug, min_gates, processed_modules, imcs>>

Modules ==
  /\ pc = "modules"
  /\ Store(ProcessIndexedFaultTree(Cur, TopIndex - 1), "findmcs")
  /\ UNCHANGED <<front_end, input, order, true_house_events, false_house_events, limit_order,
                 ndebug, min_gates, processed_modules, imcs>>

\* The state after the call of line 85.
StoreTopModule(r) == Store(r.st, "loop") /\ min_gates' = r.min_gates

\* FindMcs up to the loop: the cut sets of the top module.
FindMcsStart ==
  /\ pc = "findmcs"
  /\ \E rev \in BOOLEAN :
       StoreTopModule(FindMcsFromModule([Cur EXCEPT !.rev = rev],
                                        top_event_sign * TopIndex, << >>))
  /\ UNCHANGED <<front_end, input, order, true_house_events, false_house_events, limit_order,
                 ndebug, processed_modules, imcs>>

\* The state after one iteration of the loop of lines 94-169.
StoreIteration(r) ==
  /\ Store(r.st, "loop")
  /\ min_gates' = r.work
  /\ processed_modules' = r.cache
  /\ imcs' = r.result

FindMcsLoop ==
  /\ pc = "loop"
  /\ min_gates # << >>
  /\ \E rev \in BOOLEAN :
       StoreIteration(FindMcsIteration([Cur EXCEPT !.rev = rev], min_gates,
                                       processed_modules, imcs))
  /\ UNCHANGED <<front_end, input, order, true_house_events, false_house_events, limit_order,
                 ndebug>>

FindMcsReturn ==
  /\ pc = "loop"
  /\ min_gates = << >>
  /\ pc' = "done"
  /\ UNCHANGED <<front_end, input, order, true_house_events, false_house_events, limit_order,
                 ndebug, indexed_gates, new_gate_index, top_event_sign, modules,
                 min_gates, processed_modules, imcs, failed, err>>

Next ==
  \/ Initiate
  \/ Constants
  \/ Modules
  \/ FindMcsStart
  \/ FindMcsLoop
  \/ FindMcsReturn

Spec == Init /\ [][Next]_vars

(***************************************************************************)
(* Definitions used to state the properties.                               *)
(***************************************************************************)
Done == pc = "done"

\* The basic events of the run: the primary events that are not house events.
BasicEvents == Primary \ (true_house_events \cup false_house_events)

\* Value of the top event of the input under the assignment that makes
\* exactly the events of A true, the house events being constants.
TopValue(A) ==
  EvalInput(input, WithHouse(A, true_house_events, false_house_events), TopIndex)

\* Value of a signed child of the indexed tree g.  A collapsed gate is its
\* constant; a gate still to be unrolled (XOR, ATLEAST) and a gate whose
\* numeric type was never set are read by their string type.
RECURSIVE EvalIndexed(_, _, _)
EvalIndexed(g, A, c) ==
  LET i == Abs(c)
      v == IF i < TopIndex THEN i \in A
           ELSE LET gt == g[i]
                    n == Count(gt.children, LAMBDA x : EvalIndexed(g, A, x))
                    all == Cardinality(gt.children)
                IN IF gt.state = "null" THEN FALSE
                   ELSE IF gt.state = "unity" THEN TRUE
                   ELSE IF gt.stype = "xor" THEN n = 1
                   ELSE IF gt.stype = "atleast" THEN n >= gt.vote
                   ELSE IF gt.type = 2 THEN n = all
                   ELSE IF gt.type = 1 THEN n > 0
                   ELSE IF gt.stype = "or" THEN n > 0
                   ELSE n = all
  IN IF c < 0 THEN ~v ELSE v

\* Gates and events reachable from gate i along the child edges, i included.
RECURSIVE Reach(_, _)
Reach(g, i) ==
  IF i < TopIndex THEN {i}
  ELSE {i} \cup UNION {Reach(g, Abs(c)) : c \in g[i].children}

Positive(S) == {x \in S : x > 0}

Satisfies(A, cut_set) ==
  /\ Positive(cut_set) \subseteq A
  /\ \A x \in cut_set : x < 0 => -x \notin A

(***************************************************************************)
(* Properties of the cut sets FindMcs returns.                             *)
(***************************************************************************)
\* The hash map of gates gave the top gate first, as lines 49 and 347 assume.
TopFirst == failed \cap {49, 347} = {}

CoherentInput == \A i \in DOMAIN input : input[i].stype \in Coherent

NoHouseEvents == true_house_events = {} /\ false_house_events = {}

\* C1 (MCS minimality): in the list FindMcs produced no cut set is a subset
\* of, or equal to, another cut set of the list.  Stated for the runs of
\* coherent trees without house events in which the top gate came first.
McsMinimality ==
  Done /\ TopFirst /\ CoherentInput /\ NoHouseEvents
    => \A i, j \in DOMAIN imcs : i # j => ~(imcs[i] \subseteq imcs[j])

\* C2 (MCS soundness): for every cut set FindMcs returned, the assignment
\* that makes exactly its positive literals true makes the top event of the
\* input true.  Stated for the runs of coherent trees without house events
\* in which the top gate came first.
McsSoundness ==
  Done /\ TopFirst /\ CoherentInput /\ NoHouseEvents
    => \A i \in DOMAIN imcs : TopValue(Positive(imcs[i]))

\* C3 (MCS completeness up to L): every assignment of the basic events with
\* at most limit_order true events that makes the top event true satisfies
\* at least one returned cut set.  Stated for the runs of coherent trees in
\* which the top gate came first.
McsCompleteness ==
  Done /\ TopFirst /\ CoherentInput
    => \A A \in SUBSET BasicEvents :
         Cardinality(A) <= limit_order /\ TopValue(A)
           => \E i \in DOMAIN imcs : Satisfies(A, imcs[i])

\* C4 (order limit): every cut set in the result list imcs has at most
\* limit_order literals, whatever modules it was assembled from.
OrderLimit == \A i \in DOMAIN imcs : Cardinality(imcs[i]) <= limit_order

\* A finished run with an order limit above one that joined the cut sets of
\* two modules into the result, returned a cut set of exactly limit_order
\* literals and returned only cut sets of the input.
OrderLimitReached ==
  /\ Done /\ TopFirst /\ NoHouseEvents /\ limit_order > 1
  /\ Cardinality({m \in DOMAIN processed_modules : processed_modules[m] # << >>}) >= 2
  /\ \E i \in DOMAIN imcs : Cardinality(imcs[i]) = limit_order
  /\ \A i \in DOMAIN imcs : TopValue(Positive(imcs[i]))

(***************************************************************************)
(* Properties of the preprocessing.                                        *)
(***************************************************************************)
\* Value of the top gate of the rewritten tree under the assignment that
\* makes exactly the events of A true.
TopGateValue(A) ==
  EvalIndexed(indexed_gates,
              WithHouse(A, true_house_events, false_house_events), TopIndex)

\* A value combined with top_event_sign_.
Signed(v) == IF top_event_sign < 0 THEN ~v ELSE v

\* The run is after InitiateIndexedFaultTree and before FindMcs.
BeforeFindMcs == pc \in {"constants", "modules", "findmcs"}

\* The run is after the preprocessing of the top module in FindMcs and
\* before the preprocessing of any other module.
TopModuleDone == pc = "loop" /\ processed_modules = << >>

\* C5 (semantic preservation): for every assignment of the basic events the
\* value of the top event of the input equals the value of the top gate of
\* the rewritten tree combined with top_event_sign_, after UnrollGates and
\* PropagateConstants and after the rewrites FindMcsFromModule applies to
\* the top gate (where a negative top gate has been dualized in place, so
\* that the value of the top gate alone is accepted as well).  Stated for
\* the runs without house events in which the top gate came first.
SemanticPreservation ==
  TopFirst /\ NoHouseEvents /\ (BeforeFindMcs \/ TopModuleDone)
    => \/ \A A \in SUBSET BasicEvents : TopValue(A) = Signed(TopGateValue(A))
       \/ /\ TopModuleDone
          /\ \A A \in SUBSET BasicEvents : TopValue(A) = TopGateValue(A)

\* The tree after InitiateIndexedFaultTree and PropagateConstants, the hash
\* map giving the gates in the order of their indices.
AfterConstants ==
  PropagateConstants(
    InitiateIndexedFaultTree([NewTree(TRUE) EXCEPT !.limit = limit_order],
                             input, SetToSeq(DOMAIN input)),
    true_house_events, false_house_events)

\* Constant propagation collapsed the top gate, and the top event has the
\* given value: a Unity top gate of positive sign or a Null top gate of
\* negative sign is true, the two other cases are false.
TopConstant(value) ==
  IF value = (AfterConstants.sign > 0)
  THEN AfterConstants.g[TopIndex].state = "unity"
  ELSE AfterConstants.g[TopIndex].state = "null"

\* C6 (constant collapse): when constant propagation makes the top event
\* always false FindMcs returns the empty list, when it makes the top event
\* always true FindMcs returns exactly one cut set, the empty one, and in
\* both cases no assertion fails (the assertion of line 663, which fails in
\* every run, left aside).  Stated for the runs of trees with an AND or OR
\* top gate in which the top gate came first.
ConstantCollapse ==
  TopFirst /\ input[TopIndex].stype \in {"and", "or"}
    => /\ TopConstant(TRUE) \/ TopConstant(FALSE) => failed \subseteq {663}
       /\ Done /\ TopConstant(FALSE) => imcs = << >>
       /\ Done /\ TopConstant(TRUE) => imcs = << {} >>

(***************************************************************************)
(* Properties of the result list as a whole.                               *)
(***************************************************************************)
\* C7 (output order): the cut sets of the result list imcs appear in
\* size-ascending order, and cut sets of equal size in lexicographic order
\* of their sorted signed indices.  Stated for the runs of coherent trees
\* without house events in which the top gate came first.
OutputOrder ==
  Done /\ TopFirst /\ CoherentInput /\ NoHouseEvents
    => \A i, j \in DOMAIN imcs :
         i < j => \/ Cardinality(imcs[i]) < Cardinality(imcs[j])
                  \/ /\ Cardinality(imcs[i]) = Cardinality(imcs[j])
                     /\ LexLess(imcs[i], imcs[j])

\* The loop of FindMcs (lines 94-169) run to its end from the state r.
RECURSIVE FindMcsLoopRun(_)
FindMcsLoopRun(r) ==
  IF r.st.err # "" \/ r.work = << >> THEN r
  ELSE FindMcsLoopRun(FindMcsIteration(r.st, r.work, r.cache, r.result))

\* A second run of the pipeline on the input and the order limit of this
\* run: the hash map gives the gates in the order of their indices and the
\* sets of pointers give the gates in the order of their creation.
SecondRun ==
  LET s1 == InitiateIndexedFaultTree([NewTree(ndebug) EXCEPT !.limit = limit_order],
                                     input, SetToSeq(DOMAIN input))
      s2 == IF s1.err # "" THEN s1
            ELSE PropagateConstants(s1, true_house_events, false_house_events)
      s3 == IF s2.err # "" THEN s2 ELSE ProcessIndexedFaultTree(s2, TopIndex - 1)
      top == FindMcsFromModule(s3, s3.sign * TopIndex, << >>)
      r == FindMcsLoopRun([st |-> top.st, work |-> top.min_gates,
                           cache |-> << >>, result |-> << >>])
  IN IF s3.err # "" THEN [finished |-> FALSE, imcs |-> << >>]
     ELSE [finished |-> r.st.err = "", imcs |-> r.result]

\* C8 (determinism): a run of the pipeline and a second run on the same
\* input and the same order limit yield identical output, whatever the
\* iteration orders of the hash map of gates and of the pointer-ordered
\* sets were in the first run: both return, and return the same list, or
\* neither returns.
Determinism ==
  /\ Done => SecondRun.finished /\ imcs = SecondRun.imcs
  /\ pc = "stopped" => ~SecondRun.finished

(***************************************************************************)
(* Properties of the modules and of the gate indices.                      *)
(***************************************************************************)
\* The gates among the nodes of S.
Gates(S) == {i \in S : i >= TopIndex}

\* The gates and events of the tree: the nodes reachable from the top gate.
\* A gate that was removed from all its parents is retired and not in it.
Live == Reach(indexed_gates, TopIndex)

\* A node below gate m, m itself excluded, is a child of a gate of the tree
\* that is not in the subtree of m.
Shared(m) ==
  \E p \in Gates(Live) \ Reach(indexed_gates, m) :
    \E c \in indexed_gates[p].children :
      Abs(c) \in Reach(indexed_gates, m) \ {m}

\* C9 (module independence): once DetectModules has run, no basic event
\* and no gate below a gate of modules_ is referenced by a gate of the tree
\* outside the subtree of that module; this holds in every later state of
\* FindMcs, after the rewrites FindMcsFromModule made in any module.
ModuleIndependence ==
  pc \in {"findmcs", "loop", "done"} => \A m \in modules : ~Shared(m)

\* FindMcs returned after it preprocessed a module other than the top gate
\* that is still in the tree, and the rewrites created a gate that is in
\* the tree outside that module and a gate that is in the tree inside a
\* module other than the top gate.
ModuleRewritten ==
  /\ Done /\ TopFirst
  /\ \E m \in (modules \cap Live) \ {TopIndex} :
       /\ m \in DOMAIN processed_modules \/ -m \in DOMAIN processed_modules
       /\ (Gates(Live) \ Reach(indexed_gates, m)) \ DOMAIN input # {}
  /\ \E m \in (modules \cap Live) \ {TopIndex} :
       Gates(Reach(indexed_gates, m)) \ DOMAIN input # {}

\* The indices of the gates a step adds to indexed_gates_.
NewIndices == DOMAIN indexed_gates' \ DOMAIN indexed_gates

\* C10 (fresh gate indices): InitiateIndexedFaultTree leaves the counter
\* new_gate_index_ at or above every index of indexed_gates_, in whatever
\* order it visited the gates; in every later step the counter only
\* increases, no gate leaves indexed_gates_, every index the step adds is
\* greater than every index already present and lies between the old
\* counter (exclusive) and the new one (inclusive), and the step adds as
\* many gates as it advanced the counter, so no index is given twice.
FreshIndicesStep ==
  IF pc = "initiate"
  THEN \A i \in DOMAIN indexed_gates' : i <= new_gate_index'
  ELSE /\ new_gate_index' >= new_gate_index
       /\ DOMAIN indexed_gates \subseteq DOMAIN indexed_gates'
       /\ \A i \in NewIndices :
            /\ new_gate_index < i /\ i <= new_gate_index'
            /\ \A j \in DOMAIN indexed_gates : j < i
       /\ Cardinality(NewIndices) = new_gate_index' - new_gate_index

FreshIndices == [][FreshIndicesStep]_vars

\* The hash map gave the gates in an order that leaves the counter below
\* the successor of the greatest index, and the passes created at least two
\* gates, all of them above the indices of the input.
FreshIndexGiven ==
  /\ pc \in {"loop", "done"}
  /\ Cardinality(DOMAIN indexed_gates \ DOMAIN input) >= 2
  /\ \A i \in DOMAIN indexed_gates \ DOMAIN input : \A j \in DOMAIN input : j < i
  /\ new_gate_index
       = Max(DOMAIN input) + Cardinality(DOMAIN indexed_gates \ DOMAIN input)

(***************************************************************************)
(* Properties of the passes of FindMcsFromModule and PropagateConstants.   *)
(***************************************************************************)
\* The gates of the module rooted at gate i: the gates reachable from i
\* without entering another gate of modules_.
RECURSIVE OwnGates(_)
OwnGates(i) ==
  {i} \cup UNION {OwnGates(Abs(c)) :
                    c \in {x \in indexed_gates[i].children :
                             Abs(x) > TopIndex /\ Abs(x) \notin modules}}

\* C11 (preprocessing post-condition): when FindMcsFromModule has finished
\* the rewrites of the top module, no gate of the module has a negative
\* child that is a gate, every gate of the module is AND or OR (numeric
\* type 2 or 1) with at least two children, and no gate of the module is in
\* Null or Unity state.  Stated for the runs without house events in which
\* the top gate came first.
PreprocessingPostcondition ==
  TopModuleDone /\ TopFirst /\ NoHouseEvents
    => \A i \in OwnGates(TopIndex) :
         /\ \A c \in indexed_gates[i].children : c < 0 => -c < TopIndex
         /\ indexed_gates[i].type \in {1, 2}
         /\ Cardinality(indexed_gates[i].children) >= 2
         /\ indexed_gates[i].state = "normal"

(***************************************************************************)
(* Calls on a Component.  A call that throws leaves the exception in       *)
(* thrown; the caller goes on with the same Component.                     *)
(***************************************************************************)
ComponentInit == FrontEndIdle /\ TreeIdle

\* The Component after a call.
AfterCall(r, c) ==
  /\ component' = r.component
  /\ thrown' = r.thrown
  /\ call' = c
  /\ UNCHANGED <<tree_vars, analysis, doc, status, checked_gate, message, fault_tree>>

AddGate ==
  \E name \in Names, obj \in Objects :
    AfterCall(Add(component, "gates", [name |-> name, obj |-> obj]),
              [NoCall EXCEPT !.op = "Add", !.kind = "gates", !.name = name,
                             !.obj = obj])

AddBasicEvent ==
  \E name \in Names, obj \in Objects :
    AfterCall(Add(component, "basic_events", [name |-> name, obj |-> obj]),
              [NoCall EXCEPT !.op = "Add", !.kind = "basic_events",
                             !.name = name, !.obj = obj])

AddHouseEvent ==
  \E name \in Names, obj \in Objects :
    AfterCall(Add(component, "house_events", [name |-> name, obj |-> obj]),
              [NoCall EXCEPT !.op = "Add", !.kind = "house_events",
                             !.name = name, !.obj = obj])

\* The members of a CCF group are basic events of distinct names.
AddGroup ==
  \E name \in GroupNames, obj \in Objects, S \in SUBSET Names \ {{}} :
    AfterCall(AddCcfGroup(component,
                          [name |-> name, members |-> [n \in S |-> obj]]),
              [NoCall EXCEPT !.op = "Add", !.kind = "ccf_groups",
                             !.name = name, !.members = [n \in S |-> obj]])

Remove ==
  \E kind \in {"gates", "basic_events", "house_events"},
     name \in Names, obj \in Objects :
    AfterCall(RemoveEvent(component, kind, [name |-> name, obj |-> obj]),
              [NoCall EXCEPT !.op = "Remove", !.kind = kind, !.name = name,
                             !.obj = obj])

ComponentNext ==
  \/ AddGate
  \/ AddBasicEvent
  \/ AddHouseEvent
  \/ AddGroup
  \/ Remove

ComponentSpec == ComponentInit /\ [][ComponentNext]_vars

(***************************************************************************)
(* Properties of the front end.                                            *)
(***************************************************************************)
\* The name is used by a gate, a basic event or a house event of the
\* Component.
InUse(name) ==
  \/ name \in DOMAIN component.gates
  \/ name \in DOMAIN component.basic_events
  \/ name \in DOMAIN component.house_events

\* The step is a call of Component::Add with an event or a member whose
\* name is in use.
AddsDuplicate ==
  /\ call'.op = "Add"
  /\ \/ call'.kind # "ccf_groups" /\ InUse(call'.name)
     \/ call'.kind = "ccf_groups" /\ \E n \in DOMAIN call'.members : InUse(n)

\* C12 (duplicate names are rejected without side effects): a call of
\* Component::Add with a gate, basic event or house event whose name is
\* used by a gate, basic event or house event of the component, or with a
\* CCF group one of whose members has such a name, raises
\* DuplicateElementError and leaves the four tables as they were.
DuplicateStep ==
  AddsDuplicate => thrown' = "DuplicateElementError" /\ component' = component

DuplicateRejected == [][DuplicateStep]_vars

\* Add was called with a CCF group that has a member of a fresh name and a
\* member whose name is in use by a gate, while another group is in the
\* tables, and the call raised the error.
DuplicateMemberRejected ==
  /\ call.op = "Add" /\ call.kind = "ccf_groups"
  /\ thrown = "DuplicateElementError"
  /\ call.name \notin DOMAIN component.ccf_groups
  /\ \E n \in DOMAIN call.members : n \in DOMAIN component.gates
  /\ \E n \in DOMAIN call.members : ~InUse(n)
  /\ component.ccf_groups # << >>

(***************************************************************************)
(* RiskAnalysis::ProcessInput reading an input file element by element.    *)
(* status is "reading" in the loop of lines 82-97, "completed" after a     *)
(* normal return, and the error otherwise.                                 *)
(***************************************************************************)
\* The gate types of the input files read here.
InputTypes == {"and", "not"}

\* The references inside a gate definition.
References ==
  [tag : {"event", "gate", "basic-event", "house-event"}, name : Ids]

\* The lists of references to distinct names.
ChildLists ==
  {refs \in UNION {[1..n -> References] : n \in 0..MaxChildren} :
     \A i, j \in DOMAIN refs : i # j => refs[i].name # refs[j].name}

GateElements ==
  [tag : {"define-gate"}, name : Ids, type : InputTypes, min : {0},
   children : ChildLists]

EventElement(tag, id) ==
  [tag |-> tag, name |-> id, type |-> "", min |-> 0, children |-> << >>]

InputInit ==
  /\ TreeIdle
  /\ component = NewComponent
  /\ call = NoCall
  /\ thrown = ""
  /\ analysis = NewAnalysis
  /\ doc = << >>
  /\ status = "reading"
  /\ checked_gate = NoGate
  /\ message = "not checked"
  /\ fault_tree = NoFaultTree

\* The state after the element el was handled with the result r.
AfterElement(r, el) ==
  /\ analysis' = r.analysis
  /\ doc' = Append(doc, el)
  /\ status' = IF r.thrown = "" THEN "reading" ELSE r.thrown
  /\ UNCHANGED <<tree_vars, component, call, thrown, checked_gate, message, fault_tree>>

ReadGate ==
  /\ status = "reading"
  /\ Len(doc) < MaxElements
  /\ \E el \in GateElements : AfterElement(Define(analysis, el), el)

ReadBasicEvent ==
  /\ status = "reading"
  /\ Len(doc) < MaxElements
  /\ \E id \in Ids :
       AfterElement(Define(analysis, EventElement("define-basic-event", id)),
                    EventElement("define-basic-event", id))

ReadHouseEvent ==
  /\ status = "reading"
  /\ Len(doc) < MaxElements
  /\ \E id \in Ids :
       AfterElement(Define(analysis, EventElement("define-house-event", id)),
                    EventElement("define-house-event", id))

\* The state after the end of ProcessInput with the result r.
AfterInput(r) ==
  /\ analysis' = r.analysis
  /\ status' = IF r.thrown = "" THEN "completed" ELSE r.thrown
  /\ UNCHANGED <<tree_vars, component, call, thrown, doc, checked_gate, message,
                 fault_tree>>

EndOfInput ==
  /\ status = "reading"
  /\ AfterInput(ProcessInputEnd(analysis))

InputNext ==
  \/ ReadGate
  \/ ReadBasicEvent
  \/ ReadHouseEvent
  \/ EndOfInput

InputSpec == InputInit /\ [][InputNext]_vars

(***************************************************************************)
(* RiskAnalysis::CheckGate applied to one gate.                            *)
(***************************************************************************)
MaxArity == 4

MaxVote == 4

\* The gates given to CheckGate: any type, any number of children, any
\* vote number, none, one or two of the children conditional events.
GatesToCheck ==
  {g \in [type : gate_types, vote_number : -1..MaxVote,
          children : {1..n : n \in 0..MaxArity},
          conditional : {{}, {1}, {1, 2}}] :
     g.conditional \subseteq g.children}

GateInit ==
  /\ TreeIdle
  /\ component = NewComponent
  /\ call = NoCall
  /\ thrown = ""
  /\ analysis = NewAnalysis
  /\ doc = << >>
  /\ status = "idle"
  /\ checked_gate \in GatesToCheck
  /\ message = "not checked"
  /\ fault_tree = NoFaultTree

CheckOneGate ==
  /\ message = "not checked"
  /\ message' = CheckGate(checked_gate)
  /\ UNCHANGED <<tree_vars, component, call, thrown, analysis, doc, status,
                 checked_gate, fault_tree>>

GateNext == CheckOneGate

GateSpec == GateInit /\ [][GateNext]_vars

\* The names the elements of the input read so far define.
Defined == {doc[i].name : i \in DOMAIN doc}

\* The names the gate definitions read so far refer to.
Referenced ==
  UNION {{doc[i].children[j].name : j \in DOMAIN doc[i].children} : i \in DOMAIN doc}

\* C13 (undefined references are errors): when ProcessInput completes
\* successfully, every name a gate definition of the input refers to, as
\* <event>, <gate>, <basic-event> or <house-event>, is defined by an
\* element of the input as a gate, a basic event or a house event.
UndefinedReferenceFails == status = "completed" => Referenced \subseteq Defined

\* The number of children of the gate given to CheckGate.
Arity == Cardinality(checked_gate.children)

\* C14 (gate arity validation): a gate CheckGate accepts has an arity
\* compatible with its kind: AND, OR, NOR, NAND at least 2 children, XOR
\* exactly 2, NOT and NULL exactly 1, and ATLEAST a vote number k with
\* 1 < k < number of children.
ArityValidated ==
  message = ""
    => /\ checked_gate.type \in {"and", "or", "nor", "nand"} => Arity >= 2
       /\ checked_gate.type = "xor" => Arity = 2
       /\ checked_gate.type \in {"not", "null"} => Arity = 1
       /\ checked_gate.type = "atleast"
            => 1 < checked_gate.vote_number /\ checked_gate.vote_number < Arity


(***************************************************************************)
(* C15-C20: the loop of FindMcs, constant propagation and normalization.   *)
(***************************************************************************)
\* The cut set that the next iteration of the loop of FindMcs takes from the
\* back of min_gates.
Candidate == min_gates[Len(min_gates)]

\* The modules of the candidate whose cached list of cut sets is empty once
\* the iteration has expanded them.
NullModules ==
  {m \in Candidate.modules :
     m \in DOMAIN processed_modules' /\ processed_modules'[m] = << >>}

NullModuleStep ==
  pc = "loop" /\ pc' = "loop" /\ min_gates # << >> /\ NullModules # {}
    => /\ min_gates' = SubSeq(min_gates, 1, Len(min_gates) - 1)
       /\ imcs' = imcs

\* C15: an iteration of the loop of FindMcs on a candidate cut set with a
\* module whose cached list of cut sets is empty discards the candidate: it
\* appends nothing to min_gates and nothing to imcs_.
NullModuleDiscards == [][NullModuleStep]_vars


\* The gates in normal state that are reachable from gate i through gates in
\* normal state.
RECURSIVE NormalGates(_, _)
NormalGates(g, i) ==
  IF g[i].state # "normal" THEN {}
  ELSE {i} \cup UNION {NormalGates(g, Abs(c)) :
                         c \in {x \in g[i].children : Abs(x) > TopIndex}}

House == true_house_events \cup false_house_events

\* Value of the top gate of the tree g, the house events being constants.
ValueIn(g, A) ==
  EvalIndexed(g, WithHouse(A, true_house_events, false_house_events), TopIndex)

\* The step in which PropagateConstants ran and returned.
ConstantsReturned == pc = "constants" /\ pc' = "modules" /\ err' = ""

NoConstantChild(g) ==
  \A i \in NormalGates(g, TopIndex) : \A c \in g[i].children :
    IF Abs(c) > TopIndex THEN g[Abs(c)].state = "normal" ELSE Abs(c) \notin House

EmptyGatesCollapsed(g) ==
  \A i \in DOMAIN g :
    g[i].children = {}
      => g[i].state = (IF g[i].stype = "or" THEN "null" ELSE "unity")

SameValue ==
  \A A \in SUBSET BasicEvents : ValueIn(indexed_gates, A) = ValueIn(indexed_gates', A)

ConstantsStep ==
  ConstantsReturned
    => /\ NoConstantChild(indexed_gates')
       /\ EmptyGatesCollapsed(indexed_gates')
       /\ SameValue

\* C16 (constant elimination): when PropagateConstants has returned, no gate
\* in normal state that is reachable from the top gate through gates in
\* normal state has a child that is a house event of either set or a child
\* gate in null or unity state; a gate left without children is in null
\* state if it is an OR gate and in unity state if it is an AND gate; and
\* the top gate has the value it had before under every assignment, so that
\* a negated constant child counted as the opposite constant.
ConstantElimination == [][ConstantsStep]_vars

\* PropagateConstants returned with the top gate in normal state after a
\* gate that its parent holds as a negated child had collapsed.
NegatedConstantErased ==
  /\ pc = "modules" /\ err = "" /\ failed = {}
  /\ indexed_gates[TopIndex].state = "normal"
  /\ \E i \in DOMAIN input : /\ input[i].stype \in {"nor", "nand", "not"}
                             /\ indexed_gates[i].state # "normal"


\* The gates the call of PropagateConstants in the current state visits.
Processed ==
  PropagateConstants(Cur, true_house_events, false_house_events).processed

\* The child c is a constant in the tree g: a house event, or a gate in null
\* or unity state.
IsConstant(g, c) ==
  IF Abs(c) > TopIndex THEN g[Abs(c)].state # "normal" ELSE Abs(c) \in House

\* The value of the constant child c, its sign applied.
ConstantValue(g, c) ==
  (IF Abs(c) > TopIndex THEN g[Abs(c)].state = "unity"
   ELSE Abs(c) \in true_house_events) = (c > 0)

\* The XOR gate i of the tree g in the tree g2 after constant propagation.
XorResult(g, g2, i) ==
  LET ch == g[i].children
      k == {c \in ch : IsConstant(g2, c)}
  IN CASE k = {} -> g2[i] = g[i]
       [] k = ch ->
            g2[i].state =
              (IF \E c \in ch : \A d \in ch : ConstantValue(g2, c) = ConstantValue(g2, d)
               THEN "null" ELSE "unity")
       [] OTHER ->
            /\ g2[i].state = "normal" /\ g2[i].stype = "or" /\ g2[i].type = 1
            /\ g2[i].children =
                 {IF \E c \in k : ConstantValue(g2, c) THEN -o ELSE o : o \in ch \ k}

XorStep ==
  ConstantsReturned
    => \A i \in Processed :
         indexed_gates[i].stype = "xor"
           => XorResult(indexed_gates, indexed_gates', i)

\* C17 (XOR under constant propagation): when PropagateConstants has
\* returned, an XOR gate it visited with one constant child is an OR gate
\* whose only child is the other child if the constant is false and the
\* negation of the other child if the constant is true; with both children
\* constant its state is unity if the constants differ and null if they are
\* equal; with no constant child it is unchanged.
XorUnderConstants == [][XorStep]_vars

\* PropagateConstants returned after it turned an XOR gate with one true
\* child into the negation of its other child.
XorNegatedOther ==
  /\ pc = "modules" /\ err = ""
  /\ \E i \in DOMAIN input :
       /\ input[i].stype = "xor" /\ indexed_gates[i].stype = "or"
       /\ indexed_gates[i].state = "normal"
       /\ \E c \in indexed_gates[i].children : c < 0 /\ -c < TopIndex


(***************************************************************************)
(* Runs on trees with an ATLEAST gate of three to five children, where     *)
(* every primary event may be a house event of either set.                 *)
(***************************************************************************)
AtleastShapes ==
  { [ch |-> (4 :> {1, 2, 3}), pool |-> {"atleast"}],
    [ch |-> (4 :> {1, 2, 3, 5}) @@ (5 :> {1, 2}), pool |-> {"atleast", "and", "nor"}],
    [ch |-> (4 :> {1, 5}) @@ (5 :> {1, 2, 3}), pool |-> {"atleast", "and", "or"}],
    [ch |-> (4 :> {1, 2, 3, 5, 6}) @@ (5 :> {1}) @@ (6 :> {2}),
     pool |-> {"atleast", "not", "null"}] }

AtleastTrees ==
  {t \in UNION {TreesOf(s) : s \in AtleastShapes} :
     \E i \in DOMAIN t : t[i].stype = "atleast"}

AtleastInit ==
  /\ pc = "initiate"
  /\ input \in AtleastTrees
  /\ order \in Perms(DOMAIN input)
  /\ true_house_events \in SUBSET Primary
  /\ false_house_events \in SUBSET (Primary \ true_house_events)
  /\ limit_order \in 1..MaxLimit
  /\ ndebug \in BOOLEAN
  /\ indexed_gates = << >>
  /\ new_gate_index = 0
  /\ top_event_sign = 1
  /\ modules = {}
  /\ min_gates = << >>
  /\ processed_modules = << >>
  /\ imcs = << >>
  /\ failed = {}
  /\ err = ""
  /\ FrontEndIdle

AtleastSpec == AtleastInit /\ [][Next]_vars

\* The ATLEAST gate i of the tree g in the tree g2 after constant
\* propagation: kk is the vote number less the true constant children, r the
\* number of children that are not constant.
AtleastResult(g, g2, i) ==
  LET ch == g[i].children
      k == {c \in ch : IsConstant(g2, c)}
      T == {c \in k : ConstantValue(g2, c)}
      r == Cardinality(ch \ k)
      kk == g[i].vote - Cardinality(T)
  IN IF kk > r THEN g2[i].state = "null"
     ELSE IF kk <= 0 THEN g2[i].state = "unity"
     ELSE /\ g2[i].state = "normal"
          /\ g2[i].children = ch \ k
          /\ CASE g2[i].stype = "and" -> kk = r /\ g2[i].type = 2
               [] g2[i].stype = "or" -> kk = 1 /\ g2[i].type = 1
               [] g2[i].stype = "atleast" -> g2[i].vote = kk /\ 1 < kk /\ kk < r
               [] OTHER -> FALSE

\* Gate i of g2 has the value of "at least vote of the children of gate i of
\* g are true" under every assignment of the basic events.
AtleastValue(g, g2, i) ==
  \A A \in SUBSET BasicEvents :
    LET WA == WithHouse(A, true_house_events, false_house_events)
    IN EvalIndexed(g2, WA, i)
         = (Count(g[i].children, LAMBDA c : EvalIndexed(g, WA, c)) >= g[i].vote)

AtleastStep ==
  pc = "constants" /\ pc' = "modules"
    => /\ (failed' \ failed) \cap {600, 601} = {}
       /\ err' = ""
            => \A i \in Processed :
                 indexed_gates[i].stype = "atleast"
                   => /\ AtleastResult(indexed_gates, indexed_gates', i)
                      /\ AtleastValue(indexed_gates, indexed_gates', i)

\* C18 (ATLEAST under constant propagation): PropagateConstants fails neither
\* assertion of its ATLEAST branch, and when it has returned an ATLEAST gate
\* it visited has lost its constant children, its vote number is lower by
\* the number of true ones, it is an AND gate if the vote number reached the
\* number of children left and an OR gate if it reached one, it is in null
\* or unity state if the constants decide it, and it has the value of "at
\* least k of the original children are true" under every assignment.
AtleastUnderConstants == [][AtleastStep]_vars

\* PropagateConstants returned after it erased a true and a false child of
\* an ATLEAST gate that stays an ATLEAST gate.
AtleastVoteLowered ==
  /\ pc = "modules" /\ err = ""
  /\ \E i \in DOMAIN input :
       /\ input[i].stype = "atleast" /\ indexed_gates[i].stype = "atleast"
       /\ indexed_gates[i].state = "normal"
       /\ indexed_gates[i].vote = input[i].vote - 1
       /\ Cardinality(indexed_gates[i].children) = Cardinality(input[i].children) - 2


\* The step in which InitiateIndexedFaultTree ran and returned.
InitiateReturned == pc = "initiate" /\ pc' = "constants" /\ err' = ""

\* Gate i of the tree g is the normalized gate i of the input: a NOR, NAND
\* or NOT gate is an OR, AND, AND gate that each parent holds as a negative
\* child, an AND or NULL gate is an AND gate, an OR gate is an OR gate, and
\* the numeric type agrees with the kind.
Normalized(g, i) ==
  LET kind == input[i].stype
  IN /\ kind \in {"nor", "nand", "not"}
          => /\ g[i].stype = (IF kind = "nor" THEN "or" ELSE "and")
             /\ g[i].type = (IF kind = "nor" THEN 1 ELSE 2)
             /\ \A p \in DOMAIN input :
                  i \in input[p].children
                    => -i \in g[p].children /\ i \notin g[p].children
     /\ kind \in {"and", "null"} => g[i].stype = "and" /\ g[i].type = 2
     /\ kind = "or" => g[i].stype = "or" /\ g[i].type = 1

NormalizeStep ==
  InitiateReturned
    => /\ \A i \in DOMAIN input \ {TopIndex} : Normalized(indexed_gates', i)
       /\ \A j \in 2..Len(order) : order[j] # TopIndex

\* C19 (normalization of negative gates): when InitiateIndexedFaultTree has
\* returned, every gate other than the top gate is normalized, a NOR, NAND
\* or NOT gate being an OR, AND, AND gate whose edge in each parent has the
\* opposite sign, and the top gate is not among the gates the loop of
\* UnrollGates passes to UnrollGate, whatever the iteration order of
\* indexed_gates_.
NegativeGateNormalization == [][NormalizeStep]_vars


TopNormalizeStep ==
  InitiateReturned /\ order[1] = TopIndex
    => LET kind == input[TopIndex].stype
           top == indexed_gates'[TopIndex]
       IN /\ kind = "nor" => top_event_sign' = -1 /\ top.stype = "or" /\ top.type = 1
          /\ kind = "nand" => top_event_sign' = -1 /\ top.stype = "and" /\ top.type = 2
          /\ kind = "not" => top_event_sign' = -1
          /\ kind = "null" => top_event_sign' = 1

\* C20 (top gate normalization): when InitiateIndexedFaultTree has returned
\* in a run where the hash map gave the top gate first, a NOR or NAND top
\* gate has top_event_sign_ negative and is an OR or AND gate in its string
\* kind and in its numeric type (1 or 2), a NOT top gate has top_event_sign_
\* negative and a NULL top gate has it positive.
TopGateNormalization == [][TopNormalizeStep]_vars


(***************************************************************************)
(* C21-C30.  Runs on trees in which a gate that is not a module has two    *)
(* parents, so that one gate can be referenced negatively twice.           *)
(***************************************************************************)
ComplementShapes ==
  { [ch |-> (4 :> {5, 6}) @@ (5 :> {1, 6}) @@ (6 :> {1, 2}),
     pool |-> {"and", "or", "nor", "nand"}],
    [ch |-> (4 :> {5, 6}) @@ (5 :> {6, 7}) @@ (6 :> {1, 7}) @@ (7 :> {1, 2}),
     pool |-> {"and", "nor"}] }

ComplementInit ==
  /\ pc = "initiate"
  /\ input \in UNION {TreesOf(s) : s \in ComplementShapes}
  /\ order \in Perms(DOMAIN input)
  /\ true_house_events \in SUBSET HouseEvents
  /\ false_house_events \in SUBSET (HouseEvents \ true_house_events)
  /\ limit_order \in 1..MaxLimit
  /\ ndebug \in BOOLEAN
  /\ indexed_gates = << >>
  /\ new_gate_index = 0
  /\ top_event_sign = 1
  /\ modules = {}
  /\ min_gates = << >>
  /\ processed_modules = << >>
  /\ imcs = << >>
  /\ failed = {}
  /\ err = ""
  /\ FrontEndIdle

ComplementSpec == ComplementInit /\ [][Next]_vars

\* The indices FindMcs may pass to FindMcsFromModule: the signed top gate
\* and the other modules under either sign.
ModuleIndices ==
  {top_event_sign * TopIndex} \cup UNION {{m, -m} : m \in modules \ {TopIndex}}

\* The tree when FindMcsFromModule(index) reaches line 199, and the tree
\* after the call of PropagateComplements of lines 201-202.
BeforeComplements(index) ==
  InvertModule(UnrollModuleTop(Expect(Cur, index # 0, 185), Abs(index)), index)

AfterComplements(index) ==
  PropagateModuleComplements(BeforeComplements(index), Abs(index))

\* The gates reachable from gate i of the tree g without entering a module.
RECURSIVE OwnOf(_, _, _)
OwnOf(g, mods, i) ==
  {i} \cup UNION {OwnOf(g, mods, Abs(c)) :
                    c \in {x \in g[i].children : Abs(x) > TopIndex /\ Abs(x) \notin mods}}

Twins(r) == {r.complements[x] : x \in DOMAIN r.complements}

\* The new gates of the run r from b are the complement gates, one for each
\* gate with a complement.
OneTwin(b, r) ==
  /\ DOMAIN r.g \ DOMAIN b.g = Twins(r)
  /\ Cardinality(Twins(r)) = Cardinality(DOMAIN r.complements)
  /\ r.ngi - b.ngi = Cardinality(DOMAIN r.complements)

Val(g, A, c) ==
  EvalIndexed(g, WithHouse(A, true_house_events, false_house_events), c)

\* The children of gate i that PropagateComplements never rewrites.
Leaves(r, i) == {c \in r.g[i].children : Abs(c) < TopIndex \/ Abs(c) \in r.mods}

\* Each complement gate has the other numeric type, the primary events and
\* modules of its gate with the opposite sign, and the opposite value.
TwinIsDual(r) ==
  \A x \in DOMAIN r.complements :
    /\ r.g[r.complements[x]].type = (IF r.g[x].type = 1 THEN 2 ELSE 1)
    /\ Leaves(r, r.complements[x]) = Negate(Leaves(r, x))
    /\ \A A \in SUBSET BasicEvents : Val(r.g, A, r.complements[x]) = ~Val(r.g, A, x)

NoNegativeGate(r, i) ==
  \A j \in OwnOf(r.g, r.mods, i) : \A c \in r.g[j].children :
    c < 0 => -c < TopIndex \/ -c \in r.mods

ComplementsOf(b, r, i) ==
  b.err = "" /\ r.err = "" => OneTwin(b, r) /\ TwinIsDual(r) /\ NoNegativeGate(r, i)

\* C21 (complement propagation): the run of PropagateComplements that
\* FindMcsFromModule starts for a module creates exactly one complement gate
\* for each negatively referenced gate that is not a module, each complement
\* gate has the opposite type, the children of its gate with the signs
\* flipped and the opposite value, and after the run no gate reachable from
\* the gate of the module has a negative child that is a gate and not a
\* module.  Stated for the runs in which the hash map gave the top gate
\* first.
ComplementPropagation ==
  pc = "findmcs" /\ TopFirst /\ err = ""
    => \A index \in ModuleIndices :
         ComplementsOf(BeforeComplements(index), AfterComplements(index), Abs(index))

\* FindMcs starts on a tree in which PropagateComplements meets a second
\* negative reference to a gate that has a complement gate already.
TwinReused ==
  /\ pc = "findmcs" /\ TopFirst /\ err = ""
  /\ AfterComplements(top_event_sign * TopIndex).err = ""
  /\ \E x \in DOMAIN AfterComplements(top_event_sign * TopIndex).complements :
       Cardinality({p \in DOMAIN indexed_gates :
                      -x \in BeforeComplements(top_event_sign * TopIndex).g[p].children}) > 1


\* The tree after the call of JoinGates of lines 205-206.
AfterJoin(index) == JoinModuleGates(AfterComplements(index), Abs(index))

\* The children of gate j that are gates and not modules.
GateChildren(r, j) ==
  {c \in r.g[j].children : Abs(c) > TopIndex /\ Abs(c) \notin r.mods}

\* No normal gate under gate i has a positive gate child of its own type or
\* a gate child with exactly one child, and the modules are as in b.
Coalesced(b, r, i) ==
  /\ \A j \in OwnOf(r.g, r.mods, i) :
       r.g[j].state = "normal"
         => \A c \in GateChildren(r, j) :
              /\ ~(c > 0 /\ r.g[c].type = r.g[j].type)
              /\ Cardinality(r.g[Abs(c)].children) # 1
  /\ \A m \in r.mods \ {i} : r.g[m] = b.g[m]

\* C22 (gate coalescing): after the call of JoinGates that FindMcsFromModule
\* makes for a module, no gate in normal state reachable from the gate of
\* the module has a positive gate child of its own type that is not a
\* module, none has a gate child with exactly one child that is not a
\* module, and the gates of modules_ are untouched.  Stated for the runs in
\* which the hash map gave the top gate first.
GateCoalescing ==
  pc = "findmcs" /\ TopFirst /\ err = ""
    => \A index \in ModuleIndices :
         AfterJoin(index).err = ""
           => Coalesced(AfterComplements(index), AfterJoin(index), Abs(index))


\* Value of the signed index x of a gate of the input: the gate of index
\* Abs(x) stands for its positive part, a NOR, NAND or NOT gate being an OR,
\* AND, AND gate behind a negative edge.
IndexValue(x, A) ==
  LET v == EvalInput(input, WithHouse(A, true_house_events, false_house_events), Abs(x))
      gv == IF input[Abs(x)].stype \in {"nor", "nand", "not"} THEN ~v ELSE v
  IN IF x > 0 THEN gv ELSE ~gv

Literals == BasicEvents \cup Negate(BasicEvents)

\* Every assignment that satisfies the literals of S makes the index x true.
Implicant(x, S) ==
  /\ \A l \in S : -l \notin S
  /\ \A A \in SUBSET BasicEvents : Satisfies(A, S) => IndexValue(x, A)

\* The minimal cut sets of the index x up to the order limit.
MinimalCutSets(x) ==
  {S \in SUBSET Literals : /\ Cardinality(S) <= limit_order
                           /\ Implicant(x, S)
                           /\ \A l \in S : ~Implicant(x, S \ {l})}

\* The modules the step expands from the cut sets of their complement.
NewComplemented ==
  {m \in DOMAIN processed_modules' \ DOMAIN processed_modules :
     -m \in DOMAIN processed_modules}

CachedSets(cache, m) == {cache[m][i].basics : i \in DOMAIN cache[m]}

NoNested(cache, m) == \A i \in DOMAIN cache[m] : cache[m][i].modules = {}

DualStep ==
  pc = "loop" /\ pc' = "loop" /\ TopFirst /\ err' = ""
    => \A m \in NewComplemented :
         NoNested(processed_modules, -m) /\ NoNested(processed_modules', m)
           => CachedSets(processed_modules', m) = MinimalCutSets(m)

\* C23 (complemented module by dualization): when an iteration of the loop
\* of FindMcs expands a module index m whose complement -m is in
\* processed_modules, the cut sets it caches for m are the minimal cut sets
\* up to limit_order_ of the negation of the module -m, also when the list
\* cached for -m is empty or was cut by the order limit.  Stated for modules
\* without modules below them, in the runs in which the hash map gave the
\* top gate first.
ComplementedModule == [][DualStep]_vars


(***************************************************************************)
(* Runs on gate graphs with and without cycles.                            *)
(***************************************************************************)
CycleShapes ==
  { [ch |-> (4 :> {1, 5}) @@ (5 :> {2, 4}), pool |-> {"and", "or"}],
    [ch |-> (4 :> {1, 5}) @@ (5 :> {2, 6}) @@ (6 :> {3, 5}), pool |-> {"and", "or"}],
    [ch |-> (4 :> {1, 5}) @@ (5 :> {1, 5}), pool |-> {"and", "or"}],
    [ch |-> (4 :> {1, 5}) @@ (5 :> {2, 3}), pool |-> {"and", "or"}],
    [ch |-> (4 :> {5, 6}) @@ (5 :> {1, 6}) @@ (6 :> {2, 3}), pool |-> {"and", "or"}] }

CycleInit ==
  /\ pc = "initiate"
  /\ input \in UNION {TreesOf(s) : s \in CycleShapes}
  /\ order \in Perms(DOMAIN input)
  /\ true_house_events \in SUBSET HouseEvents
  /\ false_house_events \in SUBSET (HouseEvents \ true_house_events)
  /\ limit_order \in 1..MaxLimit
  /\ ndebug \in BOOLEAN
  /\ indexed_gates = << >>
  /\ new_gate_index = 0
  /\ top_event_sign = 1
  /\ modules = {}
  /\ min_gates = << >>
  /\ processed_modules = << >>
  /\ imcs = << >>
  /\ failed = {}
  /\ err = ""
  /\ FrontEndIdle

\* The gates AssignTiming descends into from gate i (line 673: every child
\* that is not below the top index).
TimedChildren(g, i) == {Abs(c) : c \in {x \in g[i].children : Abs(x) >= TopIndex}}

RECURSIVE Closure(_, _)
Closure(g, S) ==
  IF UNION {TimedChildren(g, i) : i \in S} \subseteq S THEN S
  ELSE Closure(g, S \cup UNION {TimedChildren(g, i) : i \in S})

\* A gate reachable from the top gate is reachable from its own children.
Cyclic(g) ==
  \E i \in Closure(g, {TopIndex}) : i \in Closure(g, TimedChildren(g, i))

\* The tree after the call of AssignTiming of line 651.
Timed(st, num_basic_events) ==
  AssignTiming([st EXCEPT !.vb = [i \in 0..num_basic_events |-> <<0, 0>>],
                          !.time = 0, !.visited = << >>, !.min = 0, !.max = 0],
               TopIndex)

\* ProcessIndexedFaultTree on a graph that may have a cycle.  When
\* AssignTiming returns on a graph with a cycle, FindOriginalModules
\* (lines 693-735) never finds a gate of the cycle in visited_gates, which
\* gets a gate only after its children, and recurses until the stack is
\* exhausted.
ModulesOfGraph ==
  /\ pc = "modules"
  /\ IF Timed(Cur, TopIndex - 1).err = "" /\ Cyclic(indexed_gates)
     THEN Store(Fail(Timed(Cur, TopIndex - 1), "overflow"), "findmcs")
     ELSE Store(ProcessIndexedFaultTree(Cur, TopIndex - 1), "findmcs")
  /\ UNCHANGED <<front_end, input, order, true_house_events, false_house_events,
                 limit_order, ndebug, min_gates, processed_modules, imcs>>

CycleNext ==
  \/ Initiate
  \/ Constants
  \/ ModulesOfGraph
  \/ FindMcsStart
  \/ FindMcsLoop
  \/ FindMcsReturn

CycleSpec == CycleInit /\ [][CycleNext]_vars

TimingStep ==
  pc = "modules" /\ pc' # "modules" /\ err = ""
    => (Cyclic(indexed_gates) <=> 689 \in failed')

CacheShapes ==
  { [ch |-> (4 :> {5, 6}) @@ (5 :> {1, 2}) @@ (6 :> {3}),
     pool |-> {"and", "or", "xor", "not", "null"}],
    [ch |-> (4 :> {1, 2, 5}) @@ (5 :> {3}), pool |-> {"atleast", "and", "not", "null"}],
    [ch |-> (4 :> {1, 5}) @@ (5 :> {2, 3}), pool |-> {"xor", "and", "or", "nor"}] }

CacheInit ==
  /\ pc = "initiate"
  /\ input \in UNION {TreesOf(s) : s \in CacheShapes}
  /\ order \in Perms(DOMAIN input)
  /\ true_house_events \in SUBSET HouseEvents
  /\ false_house_events \in SUBSET (HouseEvents \ true_house_events)
  /\ limit_order \in 1..MaxLimit
  /\ ndebug \in BOOLEAN
  /\ indexed_gates = << >>
  /\ new_gate_index = 0
  /\ top_event_sign = 1
  /\ modules = {}
  /\ min_gates = << >>
  /\ processed_modules = << >>
  /\ imcs = << >>
  /\ failed = {}
  /\ err = ""
  /\ FrontEndIdle

CacheSpec == CacheInit /\ [][Next]_vars

\* The gates FindMcsFromModule has rewritten so far: the top gate (line 85)
\* and the gate of every module with an entry in processed_modules.
Expanded == {TopIndex} \cup {Abs(m) : m \in DOMAIN processed_modules}

\* An iteration of the loop of FindMcs keeps every entry of
\* processed_modules as it is and leaves the gates of the expanded modules
\* as they are.
CacheStep ==
  pc = "loop"
    => /\ \A m \in DOMAIN processed_modules :
            m \in DOMAIN processed_modules' /\ processed_modules'[m] = processed_modules[m]
       /\ \A g \in Expanded : indexed_gates'[g] = indexed_gates[g]

\* C25: during a run of FindMcs the cut sets of a signed module index are
\* computed once, later occurrences taking them from processed_modules, and
\* the gate of a module that has been expanded with either sign is never
\* rewritten by FindMcsFromModule again.
ModuleCache == [][CacheStep]_vars

\* The cut set at the back of min_gates has a module whose cut sets are in
\* processed_modules, and another entry of processed_modules is about to be
\* used.
ModuleReused ==
  /\ pc = "loop"
  /\ min_gates # << >>
  /\ \E m \in min_gates[Len(min_gates)].modules : m \in DOMAIN processed_modules

(***************************************************************************)
(* The candidates of ExpandAndLayer.                                       *)
(***************************************************************************)
\* The simple tree FindMcsFromModule(index) hands to FindMcsFromSimpleGate
\* at line 224.
SimpleTreeOf(index) == CreateSimpleTree(PreprocessModule(Cur, index), Abs(index))

\* The substitutes ExpandAndLayer returns for the AND gates that
\* ExpandOrLayer (line 907) passes to it from the OR gate.
RECURSIVE OrLayerSubstitutes(_, _)
OrLayerSubstitutes(st, gate) ==
  UNION {LET a == ExpandAndLayer(st, CopyOf(gate.gates[i]))
         IN IF a.st.err # "" THEN {} ELSE {a.sg} \cup OrLayerSubstitutes(a.st, a.sg) :
           i \in {k \in 1..Len(gate.gates) :
                    /\ Size(gate.gates[k].basics) <= st.limit
                    /\ gate.gates[k].gates # << >>}}

\* The substitutes of all calls of ExpandAndLayer that
\* FindMcsFromSimpleGate makes for the simple tree r (lines 244-250).
Substitutes(r) ==
  IF r.st.err # "" \/ (r.sg.type = 2 /\ Size(r.sg.basics) > r.st.limit) THEN {}
  ELSE IF r.sg.type = 2 /\ r.sg.gates # << >>
  THEN LET a == ExpandAndLayer(r.st, r.sg)
       IN IF a.st.err # "" THEN {} ELSE {a.sg} \cup OrLayerSubstitutes(a.st, a.sg)
  ELSE IF r.sg.type = 1 THEN OrLayerSubstitutes(r.st, r.sg)
  ELSE {}

\* The candidates that the calls of ExpandAndLayer for the module leave in
\* their substitutes.
AndLayerCandidates(index) ==
  UNION {{s.gates[k] : k \in 1..Len(s.gates)} : s \in Substitutes(SimpleTreeOf(index))}

\* C26 as stated: every candidate ExpandAndLayer adds to the substitute has
\* at most limit_order_ basic events and modules together.
AndLayerPruning ==
  pc = "findmcs"
    => \A index \in ModuleIndices : \A c \in AndLayerCandidates(index) :
         Size(c.basics) + Size(c.modules) <= limit_order

\* C26 as the code has it: every candidate ExpandAndLayer adds to the
\* substitute has at most limit_order_ basic events; its modules are not
\* counted.
AndLayerBasicsPruning ==
  pc = "findmcs"
    => \A index \in ModuleIndices : \A c \in AndLayerCandidates(index) :
         Size(c.basics) <= limit_order

\* ExpandAndLayer has left a candidate with limit_order_ basic events and a
\* module in a substitute.
CandidateWithModule ==
  /\ pc = "findmcs"
  /\ \E index \in ModuleIndices : \E c \in AndLayerCandidates(index) :
       Size(c.basics) = limit_order /\ c.modules # {}

(***************************************************************************)
(* The parent sets set up by GatherParentInformation.                      *)
(***************************************************************************)
\* The tree when InitiateIndexedFaultTree reaches line 54: the gates are in
\* indexed_gates_ and GatherParentInformation has run from the top.
AfterGather ==
  GatherParentInformation(
    [Expect(InitiateLoop(Cur, input, order, 1), order[1] = TopIndex, 49)
       EXCEPT !.processed = {}],
    TopIndex)

\* The gates of the tree g that are reachable from the top.
ReachableGates(g) == {i \in Reach(g, TopIndex) : i >= TopIndex}

\* In the tree g the parent set of every gate reachable from the top is the
\* set of the reachable gates that have the gate as a positive or negative
\* child.
Linked(g) ==
  \A i \in ReachableGates(g) :
    g[i].parents = {p \in ReachableGates(g) : g[p].children \cap {i, -i} # {}}

\* C27: when GatherParentInformation has run from the top and UnrollGates
\* has not started, the parent set of every gate reachable from the top is
\* the set of the reachable gates that have the gate as a positive or
\* negative child, and this is the tree InitiateIndexedFaultTree returns
\* once UnrollGates has used the parent sets.
ParentLinks ==
  /\ pc = "initiate" /\ AfterGather.err = "" => Linked(AfterGather.g)
  /\ pc = "constants" => Linked(indexed_gates)

\* InitiateIndexedFaultTree has returned a tree in which a gate has two
\* parents.
SharedGateLinked ==
  /\ pc = "constants"
  /\ \E i \in ReachableGates(indexed_gates) : Cardinality(indexed_gates[i].parents) = 2

(***************************************************************************)
(* Termination of FindMcs and of MinimizeCutSets.                          *)
(***************************************************************************)
\* The run is ended on the spot.  No step of Next is such a step; it is
\* possible exactly while the run has neither returned nor stopped.
Halt ==
  /\ pc \notin {"done", "stopped"}
  /\ pc' = "stopped"
  /\ UNCHANGED <<front_end, input, order, true_house_events, false_house_events,
                 limit_order, ndebug, indexed_gates, new_gate_index, top_event_sign,
                 modules, min_gates, processed_modules, imcs, failed, err>>

\* The scheduling of a run: while it has neither returned nor stopped, the
\* program goes on, with the next call of the pipeline or the next
\* iteration of the loop of FindMcs.  The steps are those of Next; Halt
\* makes the condition of the fairness requirement the test of pc.
FairSpec == Init /\ [][Next]_vars /\ WF_vars(Halt \/ Next)

\* In MinimizeCutSets(cut_sets, mcs_lower_order, min_order, ...) and in the
\* calls it makes of itself, every cut set passed on to the next call has
\* more than min_order basic events and modules.
RECURSIVE OrdersGrow(_, _, _)
OrdersGrow(cut_sets, mcs_lower_order, min_order) ==
  \/ cut_sets = << >>
  \/ LET include(c) ==
           ~\E i \in 1..Len(mcs_lower_order) : Includes(c, mcs_lower_order[i])
         ofOrder(c) == Size(c.basics) + Size(c.modules) = min_order
         isMin(c) == include(c) /\ ofOrder(c)
         isAbove(c) == include(c) /\ ~ofOrder(c)
         temp_sets == SelectSeq(cut_sets, isAbove)
     IN /\ \A k \in 1..Len(temp_sets) :
             Size(temp_sets[k].basics) + Size(temp_sets[k].modules) > min_order
        /\ OrdersGrow(temp_sets, SelectSeq(cut_sets, isMin), min_order + 1)

\* The call of MinimizeCutSets of line 317 that FindMcsFromSimpleGate makes
\* for the gate, if it makes one.
OrdersGrowFor(st, gate) ==
  \/ st.err # ""
  \/ gate.basics = {} /\ gate.gates = << >> /\ gate.modules = {}
  \/ gate.type = 2 /\ (Size(gate.basics) > st.limit \/ gate.gates = << >>)
  \/ LET a == IF gate.type = 2 THEN ExpandAndLayer(st, gate)
              ELSE [st |-> st, sg |-> gate]
         o == ExpandOrLayer(a.st, a.sg, << >>)
     IN OrdersGrow(UniqueCutSets(o.cut_sets), OneElementSets(a.sg, o.cut_sets), 2)

\* The calls of MinimizeCutSets a run of FindMcs can make: for the modules
\* it expands, and for the complements of the cut sets in processed_modules.
MinimizeEnds ==
  /\ pc = "findmcs"
       => \A index \in ModuleIndices :
            OrdersGrowFor(SimpleTreeOf(index).st, SimpleTreeOf(index).sg)
  /\ pc = "loop"
       => \A m \in DOMAIN processed_modules :
            OrdersGrowFor(Cur, ComplementOf(processed_modules[m], 1, SimpleGate(2)))

\* An iteration of the loop of FindMcs leaves the other cut sets of
\* min_gates in place and replaces the cut set taken from the back by cut
\* sets whose modules are gates inside the modules of that cut set.
LoopProgress ==
  pc = "loop" /\ min_gates # << >>
    => \A rev \in BOOLEAN :
         LET r == FindMcsIteration([Cur EXCEPT !.rev = rev], min_gates,
                                   processed_modules, imcs)
             n == Len(min_gates) - 1
         IN r.st.err = ""
              => /\ Len(r.work) >= n
                 /\ SubSeq(r.work, 1, n) = SubSeq(min_gates, 1, n)
                 /\ \A k \in (n + 1)..Len(r.work) : \A m \in r.work[k].modules :
                      \E m0 \in min_gates[n + 1].modules :
                        Abs(m) \in Reach(r.st.g, Abs(m0)) \ {Abs(m0)}
                 /\ min_gates[n + 1].modules = {} => Len(r.result) = Len(imcs) + 1

\* C28: a run of FindMcs ends: every iteration of its loop replaces the cut
\* set it takes by cut sets over modules nested more deeply, the loop
\* empties min_gates and FindMcs returns, and in every call of
\* MinimizeCutSets the cut sets passed on have more basic events and
\* modules than min_order, which ends its recursion.
Termination ==
  /\ []MinimizeEnds
  /\ []LoopProgress
  /\ pc = "findmcs" ~> (pc = "done" \/ (pc = "stopped" /\ err = "abort"))

\* FindMcs has returned after cut sets with modules were taken from
\* min_gates, one of them for a module whose cut sets have modules.
WorklistEmptied ==
  /\ pc = "done"
  /\ min_gates = << >>
  /\ imcs # << >>
  /\ \E m \in DOMAIN processed_modules : \E k \in 1..Len(processed_modules[m]) :
       processed_modules[m][k].modules # {}

(***************************************************************************)
(* The name tables of RiskAnalysis.                                        *)
(***************************************************************************)
\* The ids in gates_, tbd_gates_, primary_events_, tbd_basic_events_,
\* tbd_house_events_ and tbd_events_.
NameTables ==
  <<DOMAIN analysis.gates, analysis.tbd_gates, DOMAIN analysis.primary_events,
    analysis.tbd_basic_events, analysis.tbd_house_events, DOMAIN analysis.tbd_events>>

\* No id is in two of the tables.
Disjoint(tables) ==
  \A i, j \in DOMAIN tables : i < j => tables[i] \cap tables[j] = {}

\* C29: after every sequence of calls of DefineGate, DefineBasicEvent and
\* DefineHouseEvent, each returning or throwing, no id is in more than one
\* of gates_, tbd_gates_, primary_events_, tbd_basic_events_,
\* tbd_house_events_ and tbd_events_; an id defined in primary_events_ is
\* not entered again in tbd_basic_events_ or tbd_house_events_.
NameTablesDisjoint == [][doc' # doc => Disjoint(NameTables')]_vars

(***************************************************************************)
(* FaultTree::CollectTopEvents on fault trees with nested components.      *)
(***************************************************************************)
\* The calls of CollectTopEvents made in a run.
MaxCalls == 2

\* Where a gate is: in the fault tree itself, in a component of it, in a
\* component of that component, or in no part of the fault tree.
Places == {"tree", "component", "nested", "other"}

ComponentsOf(where) ==
  [gates |-> {g \in GateObjects : where[g] = "tree"},
   components |->
     <<[gates |-> {g \in GateObjects : where[g] = "component"},
        components |-> <<[gates |-> {g \in GateObjects : where[g] = "nested"},
                          components |-> << >>]>>]>>]

\* The gate arguments of the formulas: no gate is an argument of itself,
\* directly or through other gates.
AcyclicArgs ==
  {a \in [GateObjects -> SUBSET GateObjects] :
     \A g \in GateObjects : \A h \in a[g] : h > g}

FaultTrees ==
  {[root |-> ComponentsOf(where), args |-> a, mark |-> [g \in GateObjects |-> FALSE],
    order |-> o, top_events |-> << >>, calls |-> 0] :
     where \in [GateObjects -> Places], a \in AcyclicArgs, o \in Perms(GateObjects)}

TopEventInit ==
  /\ TreeIdle
  /\ component = NewComponent
  /\ call = NoCall
  /\ thrown = ""
  /\ analysis = NewAnalysis
  /\ doc = << >>
  /\ status = "idle"
  /\ checked_gate = NoGate
  /\ message = "not checked"
  /\ fault_tree \in FaultTrees

CollectTop ==
  /\ fault_tree.calls < MaxCalls
  /\ fault_tree' = [CollectTopEvents(fault_tree) EXCEPT !.calls = @ + 1]
  /\ UNCHANGED <<tree_vars, component, call, thrown, analysis, doc, status,
                 checked_gate, message>>

TopEventNext == CollectTop

TopEventSpec == TopEventInit /\ [][TopEventNext]_vars

\* The gates gathered that are not an argument of another gate gathered.
TopGates ==
  {g \in Gathered(fault_tree) :
     ~\E h \in Gathered(fault_tree) \ {g} : g \in fault_tree.args[h]}

\* top_events_ has the top gates, each once, and no gate is marked.
TopEventsCollected ==
  fault_tree.calls >= 1
    => /\ {fault_tree.top_events[i] : i \in DOMAIN fault_tree.top_events} = TopGates
       /\ Len(fault_tree.top_events) = Cardinality(TopGates)
       /\ \A g \in GateObjects : ~fault_tree.mark[g]

\* A call of CollectTopEvents after the first one leaves the list as it is.
SecondCall == fault_tree.calls >= 1 => fault_tree'.top_events = fault_tree.top_events

\* C30: after CollectTopEvents on an acyclic set of gates top_events_ has,
\* each exactly once, the gates of the fault tree and of its nested
\* components that are not an argument of another gate gathered, the mark
\* of every gate is clear, and a second call gives the same list.
TopEventCollection == []TopEventsCollected /\ [][SecondCall]_vars

\* CollectTopEvents was called twice on a fault tree in which a gate of a
\* nested component is an argument of a gate that is itself an argument.
NestedArgumentNotTop ==
  /\ fault_tree.calls = 2
  /\ \E g, h, k \in Gathered(fault_tree) :
       /\ h \in fault_tree.args[g]
       /\ k \in fault_tree.args[h]
       /\ k \in GatherGates(fault_tree.root.components[1])
       /\ fault_tree.top_events = <<g>>

====
